---- MODULE Spec2Model ----
(***************************************************************************)
(* Teleoperation engine of the SO-100 arm and the three programs that      *)
(* drive it:                                                               *)
(*   "local"   control loop calling ManipulatorRobot.keyboard_teleop_step  *)
(*             (manipulator.py), keys delivered by the Tk window;          *)
(*   "ws"      SO100WebSocketServer (websocket_control_robot.py);          *)
(*   "remote"  SO100RemoteServer (remote_control_server.py).               *)
(*                                                                         *)
(* Units.  Angles are integers counting tenths of a degree (5.0 deg = 50). *)
(* speed_scale and hold_speed are integers counting tenths (1.0 = 10).     *)
(* A base delta of the key table is stored as twice its value (0.5 = 1).   *)
(* Float rounding of the Python code is not modelled.                      *)
(* A joint vector is a sequence of NumMotors integers; motor index m of    *)
(* the code (0-based) is element m + 1.                                    *)
(***************************************************************************)
EXTENDS Integers, Sequences, FiniteSets, TLC

\* ------------------------------------------------------------ bounds
\* Input events (window events, timer callbacks, client messages, status
\* timer ticks) per run.
MaxInputs == 2
\* Commands waiting in the server's command_queue.
MaxQueue == 2

\* ------------------------------------------------- program constants
NumMotors == 6
DEFAULT_SPEED_SCALE == 10
DEFAULT_BASE_SPEED == 10
DEFAULT_HOLD_SPEED == 20
SPEED_SCALE_MIN == 1
SPEED_SCALE_MAX == 50
HOLD_SPEED_MIN == 1
HOLD_SPEED_MAX == 100
MOTOR_SHOULDER_PAN == 0
MOTOR_SHOULDER_LIFT == 1
MOTOR_ELBOW_FLEX == 2
\* Gravity compensation added to the goal (6.0 and 3.0 degrees).
SHOULDER_LIFT_BIAS == 60
ELBOW_FLEX_BIAS == 30
\* The motor test of the servers moves shoulder_pan by 5.0 degrees.
TEST_OFFSET == 50
\* Steps of the speed keys: 0.1 (speed_scale) and 0.5 (hold_speed).
SPEED_STEP == 1
HOLD_STEP == 5

Motors == 0 .. (NumMotors - 1)

Min(a, b) == IF a < b THEN a ELSE b
Max(a, b) == IF a > b THEN a ELSE b

\* ---------------------------------------------------------- inputs
\* Keys of the window that the model delivers: two mapped keys on two
\* motors, the modifier, the three speed keys and one key with no mapping.
CtrlKeys == {"control_l"}
SpeedKeys == {"plus", "minus", "asterisk"}
\* Both keys that on_key_press takes for a reset.
ResetKeys == {"asterisk", "multiply"}
Keys == {"w", "a", "h"} \cup CtrlKeys \cup SpeedKeys

\* base_key_mapping restricted to the modelled keys: key -> <<motor index,
\* twice the base delta>>.
base_key_mapping ==
    [k \in {"w", "a"} |->
        IF k = "w" THEN <<MOTOR_SHOULDER_LIFT, 1>> ELSE <<MOTOR_SHOULDER_PAN, -1>>]

\* Positions a read of Present_Position can return: the rest pose of the
\* specification's scenario and one other pose.
PosZero == [i \in 1 .. NumMotors |-> 0]
PosOther == [i \in 1 .. NumMotors |-> 10 * i]
PosSamples == {PosZero, PosOther}

\* An absent joint vector (no tick in progress, nothing written yet).
NoVec == <<>>
\* target_positions with no entry for the arm: the empty dict.
NoTarget == <<>>

VARIABLES
    \* KeyboardController
    pressed_keys, ctrl_pressed, emergency_stop_active, speed_scale, hold_speed,
    key_mapping, target_positions, key_timers,
    \* Tk: keys with a pending root.after callback
    tk_after,
    \* ManipulatorRobot and the bus: robot.is_connected, and what the step just
    \* taken transferred on the bus (the Present_Position it read, the
    \* Goal_Position it wrote; NoVec for none)
    is_connected, bus,
    \* the running program and its control loop: the positions read and the
    \* goal computed by the tick in progress, and whether the server had
    \* processed an emergency stop when that tick began
    prog, pc_ctl, cur, goal, tick_stop,
    \* the robot's configuration: config.max_relative_target
    max_relative_target,
    \* servers: self.robot is set, robot_connected / status_data['connected'],
    \* the holder of serial_lock, the command queue, the server's own
    \* emergency_stop flag and the positions and targets of its status
    robot, connected, serial_lock, command_queue, srv_emergency_stop,
    status_positions, status_targets,
    \* servers: the command consumer, the robot-init thread (with the
    \* original_pos of its motor test) and the status update of the event loop
    pc_cmd, pc_init, original_pos, pc_net,
    \* servers: self.clients, the connections being handled, and the message
    \* that the step just taken sent to a client (NoMsg for none)
    clients, sent,
    \* servers: the connections whose handle_client is running, those whose
    \* status task is alive, and the client whose status task is inside the
    \* status update ("none" for none)
    handlers, status_tasks, net_owner,
    \* record: the flags the keyboard listener sets, the dataset (episodes
    \* saved and the frames of the episode buffer), cfg.num_episodes, the
    \* loop's count of recorded episodes and its position
    events, dataset, cfg, recorded_episodes, pc_rec,
    \* the client programs: self.connected, self.robot_connected,
    \* self.pressed_keys, the keys held down on the keyboard, the command
    \* queue of the remote client, the number of the connection in use, the
    \* last key command transmitted for each key, and the command that the
    \* step just taken transmitted (NoWire for none)
    client_connected, client_robot_connected, client_pressed_keys, held_keys,
    client_command_queue, connection, last_command, transmitted,
    \* input bookkeeping: number of inputs handled, and the last one handled
    nInputs, event

engine_vars == <<pressed_keys, ctrl_pressed, emergency_stop_active, speed_scale,
                 hold_speed, key_mapping, target_positions, key_timers, tk_after>>
speed_vars == <<speed_scale, hold_speed, key_mapping>>
loop_vars == <<pc_ctl, cur, goal, tick_stop>>
status_vars == <<srv_emergency_stop, status_positions, status_targets>>
init_vars == <<pc_init, original_pos>>
config_vars == <<prog, max_relative_target>>
net_vars == <<clients, handlers, status_tasks>>
net_task == <<pc_net, net_owner>>
record_vars == <<events, dataset, cfg, recorded_episodes, pc_rec>>
client_vars == <<client_connected, client_robot_connected, client_pressed_keys,
                 held_keys, client_command_queue, connection, last_command,
                 transmitted>>
vars == <<engine_vars, is_connected, bus, config_vars, record_vars, client_vars,
          loop_vars, robot,
          connected, serial_lock, command_queue, status_vars, pc_cmd, init_vars,
          net_task, net_vars, sent, nInputs, event>>

\* Bus transfers of one step.
NoBus == [read |-> NoVec, write |-> NoVec]
BusRead(p) == [read |-> p, write |-> NoVec]
BusWrite(g) == [read |-> NoVec, write |-> g]

\* The connections the model opens.
Clients == {"c1"}

\* A message m sent to client w.  NoMsg: the step sent none.
Sent(w, m) == [to |-> w, msg |-> m]
NoMsg == [to |-> "none", msg |-> [type |-> "none"]]

\* The last input handled: a window event ("gui") or a client command
\* ("cmd"), with its kind and its key.
NoEvent == [src |-> "none", op |-> "none", key |-> "none"]
Ev(s, o, k) == [src |-> s, op |-> o, key |-> k]

\* Messages of the command protocol that clients send.
Cmd(t, k, m, p) == [type |-> t, key |-> k, motor_idx |-> m, position |-> p]
Commands ==
    { Cmd("key_press", "w", -1, 0), Cmd("key_release", "w", -1, 0),
      Cmd("emergency_stop", "none", -1, 0),
      Cmd("set_target", "none", 2, 250), Cmd("get_status", "none", -1, 0) }

\* A message that is valid JSON but not an object (a list, a number), as it
\* sits on the queue: it has no type, and asking it for one raises.
NonObject == Cmd("<no type>", "none", -1, 0)

\* ------------------------------------------------ KeyboardController
\* _update_key_mapping: the effective table for a speed scale.
update_key_mapping(scale) ==
    [k \in DOMAIN base_key_mapping |->
        <<base_key_mapping[k][1],
          (base_key_mapping[k][2] * DEFAULT_BASE_SPEED * scale) \div 2>>]

\* Variants of adjust_speed and adjust_hold_speed without the clamp.
adjust_speed_unclamped(delta) == speed_scale + delta
adjust_hold_speed_unclamped(delta) == hold_speed + delta

\* adjust_speed / adjust_hold_speed: the clamped new value.
adjust_speed(delta) == Max(SPEED_SCALE_MIN, Min(SPEED_SCALE_MAX, speed_scale + delta))
adjust_hold_speed(delta) == Max(HOLD_SPEED_MIN, Min(HOLD_SPEED_MAX, hold_speed + delta))

\* A variant of the speed change that leaves the table as it was.
SetSpeedScale_stale(s) ==
    /\ speed_scale' = s
    /\ UNCHANGED <<hold_speed, key_mapping>>

\* The speed scale is set to s; the table is rebuilt only when it changed.
SetSpeedScale(s) ==
    /\ speed_scale' = s
    /\ key_mapping' = IF s # speed_scale THEN update_key_mapping(s) ELSE key_mapping
    /\ UNCHANGED hold_speed

SetHoldSpeed(h) ==
    /\ hold_speed' = h
    /\ UNCHANGED <<speed_scale, key_mapping>>

\* A variant of reset_speed that leaves the default when it finds it set.
reset_speed_toggles ==
    SetSpeedScale(IF speed_scale = DEFAULT_SPEED_SCALE THEN SPEED_SCALE_MIN
                  ELSE DEFAULT_SPEED_SCALE)

\* reset_speed / reset_hold_speed: the scalar is set to its default.
reset_speed == SetSpeedScale(DEFAULT_SPEED_SCALE)
reset_hold_speed == SetHoldSpeed(DEFAULT_HOLD_SPEED)

\* A variant of update_target_position that saturates the joint at 10.0
\* degrees.
update_target_position_clamped(key) ==
    LET motor_idx == key_mapping[key][1]
        delta == key_mapping[key][2]
    IN [target_positions EXCEPT ![motor_idx + 1] = Min(@ + delta, 100)]

\* update_target_position: target_positions["main"][motor_idx] += delta.
update_target_position(key) ==
    LET motor_idx == key_mapping[key][1]
        delta == key_mapping[key][2]
    IN [target_positions EXCEPT ![motor_idx + 1] = @ + delta]

\* A variant of calculate_goal_positions that compensates gravity under
\* emergency stop too.
calculate_goal_positions_biased(current_pos) ==
    LET base == IF emergency_stop_active THEN current_pos ELSE target_positions
    IN [i \in 1 .. Len(base) |->
            IF i - 1 = MOTOR_SHOULDER_LIFT THEN base[i] + SHOULDER_LIFT_BIAS
            ELSE IF i - 1 = MOTOR_ELBOW_FLEX THEN base[i] + ELBOW_FLEX_BIAS
            ELSE base[i]]

\* calculate_goal_positions: the goal returned for the arm.  Under emergency
\* stop it is the current position; otherwise the target with the gravity
\* compensation of shoulder_lift and elbow_flex.
calculate_goal_positions(current_pos) ==
    IF emergency_stop_active
    THEN current_pos
    ELSE [i \in 1 .. Len(target_positions) |->
            IF i - 1 = MOTOR_SHOULDER_LIFT THEN target_positions[i] + SHOULDER_LIFT_BIAS
            ELSE IF i - 1 = MOTOR_ELBOW_FLEX THEN target_positions[i] + ELBOW_FLEX_BIAS
            ELSE target_positions[i]]

\* A variant in which the goal is the target tensor itself and not a clone
\* of it, so that the compensation is written into the target.
target_after_goal_aliased(current_pos) ==
    IF emergency_stop_active THEN current_pos
    ELSE calculate_goal_positions(current_pos)

\* calculate_goal_positions: target_positions after the call.
target_after_goal(current_pos) ==
    IF emergency_stop_active THEN current_pos ELSE target_positions

\* A variant of on_key_press that starts the repeat timer for every newly
\* held key before looking at what the key is.
on_key_press_repeats_all(key) ==
    IF (emergency_stop_active /\ key # "escape") \/ key \in pressed_keys
    THEN UNCHANGED engine_vars
    ELSE /\ pressed_keys' = pressed_keys \cup {key}
         /\ ctrl_pressed' = (ctrl_pressed \/ key \in CtrlKeys)
         /\ key_timers' = key_timers \cup {key}
         /\ tk_after' = tk_after \cup {key}
         /\ target_positions' = IF key \in DOMAIN key_mapping
                                THEN update_target_position(key)
                                ELSE target_positions
         /\ UNCHANGED <<emergency_stop_active, speed_vars>>

\* on_key_press as the window calls it (is_connected=True, root=self.root).
on_key_press(key) ==
    IF emergency_stop_active /\ key # "escape"
    THEN UNCHANGED engine_vars
    ELSE IF key \in pressed_keys
    THEN UNCHANGED engine_vars
    ELSE /\ pressed_keys' = pressed_keys \cup {key}
         /\ UNCHANGED emergency_stop_active
         /\ IF key \in CtrlKeys
            THEN /\ ctrl_pressed' = TRUE
                 /\ UNCHANGED <<speed_vars, target_positions, key_timers, tk_after>>
            ELSE IF key = "plus"
            THEN /\ IF ctrl_pressed
                    THEN SetHoldSpeed(adjust_hold_speed(HOLD_STEP))
                    ELSE SetSpeedScale(adjust_speed(SPEED_STEP))
                 /\ UNCHANGED <<ctrl_pressed, target_positions, key_timers, tk_after>>
            ELSE IF key = "minus"
            THEN /\ IF ctrl_pressed
                    THEN SetHoldSpeed(adjust_hold_speed(-HOLD_STEP))
                    ELSE SetSpeedScale(adjust_speed(-SPEED_STEP))
                 /\ UNCHANGED <<ctrl_pressed, target_positions, key_timers, tk_after>>
            ELSE IF key \in ResetKeys
            THEN /\ IF ctrl_pressed THEN reset_hold_speed ELSE reset_speed
                 /\ UNCHANGED <<ctrl_pressed, target_positions, key_timers, tk_after>>
            ELSE IF key \in DOMAIN key_mapping
            THEN \* first press: the delta is applied now and a timer is started
                 /\ target_positions' = update_target_position(key)
                 /\ key_timers' = key_timers \cup {key}
                 /\ tk_after' = tk_after \cup {key}
                 /\ UNCHANGED <<ctrl_pressed, speed_vars>>
            ELSE UNCHANGED <<ctrl_pressed, speed_vars, target_positions, key_timers,
                             tk_after>>

\* schedule_key_repeat, run by Tk when the key's timer expires: the expired
\* callback leaves the after queue; the delta is applied and the next
\* callback scheduled only while the key is held.
schedule_key_repeat(key) ==
    IF key \in pressed_keys /\ key \in DOMAIN key_mapping
    THEN /\ target_positions' = update_target_position(key)
         /\ key_timers' = key_timers \cup {key}
         /\ tk_after' = tk_after \cup {key}
         /\ UNCHANGED <<pressed_keys, ctrl_pressed, emergency_stop_active,
                        speed_vars>>
    ELSE /\ tk_after' = tk_after \ {key}
         /\ UNCHANGED <<pressed_keys, ctrl_pressed, emergency_stop_active, speed_vars,
                        target_positions, key_timers>>

\* A variant of on_key_release that leaves the key's timer running.
on_key_release_keeps_timer(key) ==
    IF key \in pressed_keys
    THEN /\ pressed_keys' = pressed_keys \ {key}
         /\ ctrl_pressed' = IF key \in CtrlKeys THEN FALSE ELSE ctrl_pressed
         /\ UNCHANGED <<emergency_stop_active, speed_vars, target_positions,
                        key_timers, tk_after>>
    ELSE UNCHANGED engine_vars

\* on_key_release as the window calls it.
on_key_release(key) ==
    IF key \in pressed_keys
    THEN /\ pressed_keys' = pressed_keys \ {key}
         /\ key_timers' = key_timers \ {key}
         /\ tk_after' = IF key \in key_timers THEN tk_after \ {key} ELSE tk_after
         /\ ctrl_pressed' = IF key \in CtrlKeys THEN FALSE ELSE ctrl_pressed
         /\ UNCHANGED <<emergency_stop_active, speed_vars, target_positions>>
    ELSE UNCHANGED engine_vars

\* A variant of on_escape_press that clears the pressed keys and leaves
\* their timers running.
on_escape_press_keeps_timers ==
    IF ~emergency_stop_active
    THEN /\ emergency_stop_active' = TRUE
         /\ pressed_keys' = {}
         /\ UNCHANGED <<ctrl_pressed, speed_vars, target_positions, key_timers,
                        tk_after>>
    ELSE /\ emergency_stop_active' = FALSE
         /\ UNCHANGED <<pressed_keys, ctrl_pressed, speed_vars, target_positions,
                        key_timers, tk_after>>

\* A variant of on_escape_press that puts the speed profile back to its
\* defaults when the stop is cleared.
on_escape_press_resets_speed ==
    IF ~emergency_stop_active
    THEN /\ emergency_stop_active' = TRUE
         /\ pressed_keys' = {}
         /\ tk_after' = tk_after \ key_timers
         /\ key_timers' = {}
         /\ UNCHANGED <<ctrl_pressed, speed_vars, target_positions>>
    ELSE /\ emergency_stop_active' = FALSE
         /\ speed_scale' = DEFAULT_SPEED_SCALE
         /\ hold_speed' = DEFAULT_HOLD_SPEED
         /\ key_mapping' = update_key_mapping(DEFAULT_SPEED_SCALE)
         /\ UNCHANGED <<pressed_keys, ctrl_pressed, target_positions, key_timers,
                        tk_after>>

\* on_escape_press up to the read of Present_Position.  On activation the
\* flag is set first, the pressed keys are cleared and every timer is
\* cancelled; a second press clears the flag.
on_escape_press ==
    IF ~emergency_stop_active
    THEN /\ emergency_stop_active' = TRUE
         /\ pressed_keys' = {}
         /\ tk_after' = tk_after \ key_timers
         /\ key_timers' = {}
         /\ UNCHANGED <<ctrl_pressed, speed_vars, target_positions>>
    ELSE /\ emergency_stop_active' = FALSE
         /\ UNCHANGED <<pressed_keys, ctrl_pressed, speed_vars, target_positions,
                        key_timers, tk_after>>

\* on_escape_press after the read: the target is latched on the position
\* read; a failed read is caught and leaves the target as it was.
escape_latch(read_ok, pos) ==
    /\ target_positions' = IF read_ok THEN pos ELSE target_positions
    /\ UNCHANGED <<pressed_keys, ctrl_pressed, emergency_stop_active, speed_vars,
                   key_timers, tk_after>>

\* ------------------------------------------------- ManipulatorRobot
\* config.max_relative_target: None, one float for all motors, or a list with
\* one float per motor.
None == [kind |-> "None"]
Scalar(m) == [kind |-> "float", val |-> m]
PerMotor(l) == [kind |-> "list", val |-> l]

\* The configurations of the local program that the model starts from: the
\* relative limit left out, or two degrees on every motor.
ConfiguredLimits == {None, Scalar(20)}

\* torch.tensor(max_relative_target), as broadcast against a joint vector.
tensor(max_rel) ==
    [i \in 1 .. NumMotors |->
        IF max_rel.kind = "float" THEN max_rel.val ELSE max_rel.val[i]]

\* A variant of ensure_safe_goal_position that caps the difference from
\* above only.
ensure_safe_goal_position_upper_only(goal_pos, present_pos, max_rel) ==
    LET limit == tensor(max_rel)
    IN [i \in 1 .. Len(goal_pos) |->
            present_pos[i] + Min(goal_pos[i] - present_pos[i], limit[i])]

\* ensure_safe_goal_position: the difference from the present position is
\* capped with torch.minimum and torch.maximum and added back.
ensure_safe_goal_position(goal_pos, present_pos, max_rel) ==
    LET diff == [i \in 1 .. Len(goal_pos) |-> goal_pos[i] - present_pos[i]]
        limit == tensor(max_rel)
        capped == [i \in 1 .. Len(goal_pos) |-> Min(diff[i], limit[i])]
        safe_diff == [i \in 1 .. Len(goal_pos) |-> Max(capped[i], -limit[i])]
    IN [i \in 1 .. Len(goal_pos) |-> present_pos[i] + safe_diff[i]]

\* ensure_absolute_position_limits: disabled, returns the goal.
ensure_absolute_position_limits(goal_pos) == goal_pos

\* _apply_safety_limits: the absolute limits only; no relative clamp.
apply_safety_limits(goal_pos) == ensure_absolute_position_limits(goal_pos)

\* Activities that are inside a call of the arm's motor bus, by thread.
CtlInBus == pc_ctl \in {"connect", "esc_read", "read", "write"}
CmdInBus == pc_cmd \in {"estop_read", "status_read"}
InitInBus == pc_init \in {"connect", "read0", "test1", "test2"}
NetInBus == pc_net = "status_read"
InBus ==
    (IF CtlInBus THEN {"ctl"} ELSE {}) \cup (IF CmdInBus THEN {"cmd"} ELSE {})
    \cup (IF InitInBus THEN {"init"} ELSE {}) \cup (IF NetInBus THEN {"net"} ELSE {})

\* The record loop is not running.
NoEvents == [exit_early |-> FALSE, rerecord_episode |-> FALSE, stop_recording |-> FALSE]
\* The keys the model presses in a client window: "w" is in the key table
\* of the remote client, "h" is not.
ClientKeys == {"w", "h"}

\* No command transmitted by the step.
NoWire == [type |-> "none", key |-> "none", queued_on |-> 0, sent_on |-> 0]

\* No client program runs, or a client just constructed: not connected, no
\* key pressed, nothing queued and nothing transmitted.
ClientIdle ==
    /\ client_connected = FALSE
    /\ client_robot_connected = FALSE
    /\ client_pressed_keys = {}
    /\ held_keys = {}
    /\ client_command_queue = <<>>
    /\ connection = 0
    /\ last_command = [k \in ClientKeys |-> "none"]
    /\ transmitted = NoWire

RecordIdle ==
    /\ events = NoEvents
    /\ dataset = [num_episodes |-> 0, episode_buffer |-> <<>>]
    /\ cfg = [num_episodes |-> 0]
    /\ recorded_episodes = 0
    /\ pc_rec = "none"

Init ==
    /\ prog \in {"local", "ws", "remote"}
    /\ max_relative_target \in (IF prog = "local" THEN ConfiguredLimits ELSE {None})
    /\ pressed_keys = {}
    /\ ctrl_pressed = FALSE
    /\ emergency_stop_active = FALSE
    /\ speed_scale = DEFAULT_SPEED_SCALE
    /\ hold_speed = DEFAULT_HOLD_SPEED
    /\ key_mapping = update_key_mapping(DEFAULT_SPEED_SCALE)
    /\ target_positions = NoTarget
    /\ key_timers = {}
    /\ tk_after = {}
    /\ is_connected = FALSE
    /\ bus = NoBus
    /\ pc_ctl = IF prog = "local" THEN "connect" ELSE "idle"
    /\ cur = NoVec
    /\ goal = NoVec
    /\ tick_stop = FALSE
    /\ robot = (prog = "local")
    /\ connected = FALSE
    /\ serial_lock = "free"
    /\ command_queue = <<>>
    /\ srv_emergency_stop = FALSE
    /\ status_positions = NoVec
    /\ status_targets = NoVec
    /\ pc_cmd = "idle"
    /\ pc_init = IF prog = "local" THEN "none" ELSE "start"
    /\ original_pos = NoVec
    /\ pc_net = "idle"
    /\ nInputs = 0
    /\ clients = {}
    /\ handlers = {}
    /\ status_tasks = {}
    /\ net_owner = "none"
    /\ sent = NoMsg
    /\ event = NoEvent
    /\ RecordIdle
    /\ ClientIdle

server_vars == <<robot, connected, serial_lock, command_queue, status_vars, pc_cmd,
                 init_vars, net_task>>

\* ------------------------------------------------- the local program
\* robot.connect() before the control loop: the bus is opened and read, the
\* target is initialised with the position read.
LocalConnect ==
    /\ prog = "local"
    /\ pc_ctl = "connect"
    /\ \/ \E p \in PosSamples :
            /\ target_positions' = p
            /\ is_connected' = TRUE
            /\ pc_ctl' = "idle"
            /\ bus' = BusRead(p)
       \/ /\ pc_ctl' = "stopped"
          /\ bus' = NoBus
          /\ UNCHANGED <<target_positions, is_connected>>
    /\ event' = NoEvent
    /\ sent' = NoMsg
    /\ UNCHANGED <<pressed_keys, ctrl_pressed, emergency_stop_active, speed_vars,
                   key_timers, tk_after, config_vars, record_vars, client_vars, net_vars, cur,
                   goal, tick_stop, server_vars, nInputs>>

\* keyboard_teleop_step begins (local loop, or run_robot_loop of the remote
\* server once the robot is set and connected): gui.update() dispatches the
\* pending window events.
TeleopBegin ==
    /\ prog \in {"local", "remote"}
    /\ pc_ctl = "idle"
    /\ prog = "remote" => robot /\ connected
    /\ is_connected
    /\ pc_ctl' = "gui"
    /\ tick_stop' = srv_emergency_stop
    /\ event' = NoEvent
    /\ sent' = NoMsg
    /\ bus' = NoBus
    /\ UNCHANGED <<engine_vars, is_connected, config_vars, record_vars, client_vars, net_vars, cur,
                   goal, server_vars, nInputs>>

\* In the remote server the step runs on a thread that did not create the Tk
\* interpreter: gui.update() may raise; run_robot_loop logs it and sleeps.
TeleopGuiRaises ==
    /\ prog = "remote"
    /\ pc_ctl = "idle"
    /\ robot /\ connected
    /\ is_connected
    /\ event' = NoEvent
    /\ sent' = NoMsg
    /\ bus' = NoBus
    /\ UNCHANGED <<engine_vars, is_connected, config_vars, record_vars, client_vars, net_vars,
                   loop_vars, server_vars, nInputs>>

\* Keys delivered to the window: all of them in the local program, one mapped
\* key in the window of the remote server.
GuiKeys == IF prog = "local" THEN Keys ELSE {"w"}

GuiDispatching == prog \in {"local", "remote"} /\ pc_ctl = "gui" /\ nInputs < MaxInputs

GuiKeyPress(key) ==
    /\ GuiDispatching
    /\ on_key_press(key)
    /\ event' = Ev("gui", "key_press", key)
    /\ sent' = NoMsg
    /\ nInputs' = nInputs + 1
    /\ bus' = NoBus
    /\ UNCHANGED <<is_connected, config_vars, record_vars, client_vars, net_vars, loop_vars,
                   server_vars>>

GuiKeyRelease(key) ==
    /\ GuiDispatching
    /\ on_key_release(key)
    /\ event' = Ev("gui", "key_release", key)
    /\ sent' = NoMsg
    /\ nInputs' = nInputs + 1
    /\ bus' = NoBus
    /\ UNCHANGED <<is_connected, config_vars, record_vars, client_vars, net_vars, loop_vars,
                   server_vars>>

\* The timer of a key expires and Tk runs its callback.
GuiTimerFire(key) ==
    /\ GuiDispatching
    /\ key \in tk_after
    /\ schedule_key_repeat(key)
    /\ event' = Ev("gui", "repeat", key)
    /\ sent' = NoMsg
    /\ nInputs' = nInputs + 1
    /\ bus' = NoBus
    /\ UNCHANGED <<is_connected, config_vars, record_vars, client_vars, net_vars, loop_vars,
                   server_vars>>

\* <Escape>: on_escape_press; on activation it goes on to read the bus.
GuiEscapePress ==
    /\ GuiDispatching
    /\ on_escape_press
    /\ pc_ctl' = IF ~emergency_stop_active THEN "esc_read" ELSE "gui"
    /\ event' = Ev("gui", "escape", "escape")
    /\ sent' = NoMsg
    /\ nInputs' = nInputs + 1
    /\ bus' = NoBus
    /\ UNCHANGED <<is_connected, config_vars, record_vars, client_vars, net_vars, cur, goal,
                   tick_stop, server_vars>>

GuiEscapeRead ==
    /\ prog \in {"local", "remote"}
    /\ pc_ctl = "esc_read"
    /\ \/ \E p \in PosSamples : escape_latch(TRUE, p) /\ bus' = BusRead(p)
       \/ escape_latch(FALSE, NoVec) /\ bus' = NoBus
    /\ pc_ctl' = "gui"
    /\ event' = NoEvent
    /\ sent' = NoMsg
    /\ UNCHANGED <<is_connected, config_vars, record_vars, client_vars, net_vars, cur, goal,
                   tick_stop, server_vars, nInputs>>

\* gui.update() returns; the step goes on to _read_current_positions.
GuiDone ==
    /\ prog \in {"local", "remote"}
    /\ pc_ctl = "gui"
    /\ pc_ctl' = "read"
    /\ event' = NoEvent
    /\ sent' = NoMsg
    /\ bus' = NoBus
    /\ UNCHANGED <<engine_vars, is_connected, config_vars, record_vars, client_vars, net_vars, cur,
                   goal, tick_stop, server_vars, nInputs>>

\* ------------------------------------------------- the control tick
\* A loop that catches nothing: a bus call that raises ends it.
AfterTickError_uncaught == "stopped"

\* Where the loop goes when a bus call of the tick raises: the local loop
\* does not catch it; the servers log it and sleep.
AfterTickError == IF prog = "local" THEN "stopped" ELSE "idle"
\* A tick that leaves its section without giving serial_lock back.
LockAfterTick_kept == serial_lock

\* serial_lock after the tick's `with` block is left.
LockAfterTick == IF prog = "ws" THEN "free" ELSE serial_lock

\* _control_loop of the websocket server: the tick runs inside serial_lock.
WsTickBegin ==
    /\ prog = "ws"
    /\ pc_ctl = "idle"
    /\ robot /\ connected
    /\ serial_lock = "free"
    /\ serial_lock' = "ctl"
    /\ pc_ctl' = "read"
    /\ tick_stop' = srv_emergency_stop
    /\ event' = NoEvent
    /\ sent' = NoMsg
    /\ bus' = NoBus
    /\ UNCHANGED <<engine_vars, is_connected, config_vars, record_vars, client_vars, net_vars, cur,
                   goal, robot, connected, command_queue, status_vars, pc_cmd,
                   init_vars, net_task, nInputs>>

\* _read_current_positions returns or raises.
TickRead ==
    /\ pc_ctl = "read"
    /\ \/ \E p \in PosSamples :
            /\ cur' = p
            /\ pc_ctl' = "compute"
            /\ bus' = BusRead(p)
            /\ UNCHANGED serial_lock
       \/ /\ pc_ctl' = AfterTickError
          /\ serial_lock' = LockAfterTick
          /\ bus' = NoBus
          /\ UNCHANGED cur
    /\ event' = NoEvent
    /\ sent' = NoMsg
    /\ UNCHANGED <<engine_vars, is_connected, config_vars, record_vars, client_vars, net_vars,
                   goal, tick_stop, robot, connected, command_queue, status_vars,
                   pc_cmd, init_vars, net_task, nInputs>>

\* calculate_goal_positions, then _apply_safety_limits.
TickCompute ==
    /\ pc_ctl = "compute"
    /\ goal' = apply_safety_limits(calculate_goal_positions(cur))
    /\ target_positions' = target_after_goal(cur)
    /\ pc_ctl' = "write"
    /\ event' = NoEvent
    /\ sent' = NoMsg
    /\ bus' = NoBus
    /\ UNCHANGED <<pressed_keys, ctrl_pressed, emergency_stop_active, speed_vars,
                   key_timers, tk_after, is_connected, config_vars, record_vars, client_vars,
                   net_vars, cur, tick_stop, server_vars, nInputs>>

\* _send_goal_positions: the write of Goal_Position (followed by the read of
\* Torque_Enable, whose errors are caught) returns or raises; the tick ends.
TickWrite ==
    /\ pc_ctl = "write"
    /\ \/ /\ bus' = BusWrite(goal)
          /\ pc_ctl' = "idle"
       \/ /\ pc_ctl' = AfterTickError
          /\ bus' = NoBus
    /\ serial_lock' = LockAfterTick
    /\ cur' = NoVec
    /\ goal' = NoVec
    /\ tick_stop' = FALSE
    /\ event' = NoEvent
    /\ sent' = NoMsg
    /\ UNCHANGED <<engine_vars, is_connected, config_vars, record_vars, client_vars, net_vars,
                   robot, connected, command_queue, status_vars, pc_cmd, init_vars,
                   net_task, nInputs>>

\* ------------------------------------------------------ the servers
Server == prog \in {"ws", "remote"}

\* status_data of the remote server; the websocket server keeps the same
\* four values in attributes of its own.
status_data ==
    [connected |-> connected, positions |-> status_positions,
     target_positions |-> status_targets, emergency_stop |-> srv_emergency_stop]

\* welcome_msg of handle_client (the message text is left out).
welcome_msg ==
    IF prog = "ws"
    THEN [type |-> "welcome", robot_connected |-> connected,
          emergency_stop |-> srv_emergency_stop]
    ELSE [type |-> "welcome", status |-> status_data]

\* status_msg of _send_status_updates (the timestamp is left out).
status_msg ==
    IF prog = "ws"
    THEN [type |-> "status_update", robot_connected |-> connected,
          current_positions |-> status_positions,
          target_positions |-> status_targets,
          emergency_stop |-> srv_emergency_stop]
    ELSE [type |-> "status_update", data |-> status_data]

\* response of handle_client (the timestamp is left out).
response(command) == [type |-> "ack", command |-> command.type]

\* The coroutines of the event loop run one at a time: none takes a step
\* while a status task is inside its status update, which does not await.
LoopFree == pc_net = "idle"

\* handle_client when a connection is opened: the client joins self.clients
\* and the welcome message is sent; the status task is created.
ClientConnect(w) ==
    /\ Server
    /\ LoopFree
    /\ w \notin handlers
    /\ handlers' = handlers \cup {w}
    /\ clients' = clients \cup {w}
    /\ status_tasks' = status_tasks \cup {w}
    /\ sent' = Sent(w, welcome_msg)
    /\ event' = NoEvent
    /\ bus' = NoBus
    /\ UNCHANGED <<engine_vars, is_connected, config_vars, record_vars, client_vars, loop_vars,
                   server_vars, nInputs>>

\* A variant of the finally block that cancels the status task and leaves the
\* client in the set.
handler_ends_keeps_client(w) ==
    /\ handlers' = handlers \ {w}
    /\ clients' = clients
    /\ status_tasks' = status_tasks \ {w}

\* handle_client ends (the connection closed, or an exception other than
\* JSONDecodeError was raised): its finally clause takes the client out of
\* self.clients and cancels its status task.
handler_ends(w) ==
    /\ handlers' = handlers \ {w}
    /\ clients' = clients \ {w}
    /\ status_tasks' = status_tasks \ {w}

\* The connection of a client closes.
ClientClose(w) ==
    /\ Server
    /\ LoopFree
    /\ w \in handlers
    /\ nInputs < MaxInputs
    /\ nInputs' = nInputs + 1
    /\ handler_ends(w)
    /\ event' = Ev("net", "close", w)
    /\ sent' = NoMsg
    /\ bus' = NoBus
    /\ UNCHANGED <<engine_vars, is_connected, config_vars, record_vars, client_vars, loop_vars,
                   server_vars>>

\* handle_client on a message that is not valid JSON: json.loads raises
\* JSONDecodeError, which is logged; the handler reads the next message.
ClientBadJson(w) ==
    /\ Server
    /\ LoopFree
    /\ w \in handlers
    /\ nInputs < MaxInputs
    /\ nInputs' = nInputs + 1
    /\ event' = Ev("net", "bad_json", w)
    /\ sent' = NoMsg
    /\ bus' = NoBus
    /\ UNCHANGED <<engine_vars, is_connected, config_vars, record_vars, client_vars, net_vars,
                   loop_vars, server_vars>>

\* handle_client on a message that is valid JSON but not an object: it is
\* put on the queue, then command.get raises AttributeError, which only the
\* outer handler catches: handle_client ends.
ClientNonObject(w) ==
    /\ Server
    /\ LoopFree
    /\ w \in handlers
    /\ nInputs < MaxInputs
    /\ Len(command_queue) < MaxQueue
    /\ command_queue' = Append(command_queue, NonObject)
    /\ nInputs' = nInputs + 1
    /\ handler_ends(w)
    /\ event' = Ev("net", "non_object", w)
    /\ sent' = NoMsg
    /\ bus' = NoBus
    /\ UNCHANGED <<engine_vars, is_connected, config_vars, record_vars, client_vars, loop_vars,
                   robot, connected, serial_lock, status_vars, pc_cmd, init_vars,
                   net_task>>

\* A variant of handle_client that puts the message at the front of the
\* queue.
ClientMessage_at_front(c) ==
    /\ Server
    /\ LoopFree
    /\ handlers # {}
    /\ nInputs < MaxInputs
    /\ Len(command_queue) < MaxQueue
    /\ command_queue' = <<c>> \o command_queue
    /\ \E w \in handlers : sent' = Sent(w, [type |-> "ack", command |-> c.type])
    /\ nInputs' = nInputs + 1
    /\ event' = NoEvent
    /\ bus' = NoBus
    /\ UNCHANGED <<engine_vars, is_connected, config_vars, record_vars, client_vars, net_vars,
                   loop_vars, robot, connected, serial_lock, status_vars, pc_cmd,
                   init_vars, net_task>>

\* A variant of handle_client that acknowledges a message only while the
\* robot is connected.
ClientMessage_ack_when_connected(c) ==
    /\ Server
    /\ LoopFree
    /\ handlers # {}
    /\ nInputs < MaxInputs
    /\ Len(command_queue) < MaxQueue
    /\ command_queue' = Append(command_queue, c)
    /\ \E w \in handlers :
          sent' = IF connected THEN Sent(w, [type |-> "ack", command |-> c.type])
                  ELSE NoMsg
    /\ nInputs' = nInputs + 1
    /\ event' = NoEvent
    /\ bus' = NoBus
    /\ UNCHANGED <<engine_vars, is_connected, config_vars, record_vars, client_vars, net_vars,
                   loop_vars, robot, connected, serial_lock, status_vars, pc_cmd,
                   init_vars, net_task>>

\* handle_client: a message of a client is decoded and put on the queue, and
\* the acknowledgement is sent.
ClientMessage(c) ==
    /\ Server
    /\ LoopFree
    /\ handlers # {}
    /\ nInputs < MaxInputs
    /\ Len(command_queue) < MaxQueue
    /\ command_queue' = Append(command_queue, c)
    /\ \E w \in handlers : sent' = Sent(w, response(c))
    /\ nInputs' = nInputs + 1
    /\ event' = NoEvent
    /\ bus' = NoBus
    /\ UNCHANGED <<engine_vars, is_connected, config_vars, record_vars, client_vars, net_vars,
                   loop_vars, robot, connected, serial_lock, status_vars, pc_cmd,
                   init_vars, net_task>>

\* _simulate_key_press of both servers: the delta of a mapped key is added
\* to the target, if the arm has one.
simulate_key_press(key) ==
    IF key \in DOMAIN key_mapping /\ target_positions # NoTarget
    THEN update_target_position(key)
    ELSE target_positions

\* A variant of _set_target_position that assigns the position to the arm's
\* entry instead of to one element of it.
set_target_position_whole(motor_idx, position) ==
    IF robot /\ target_positions # NoTarget /\ motor_idx \in Motors
    THEN <<position>>
    ELSE target_positions

\* _set_target_position of the remote server; an index outside the vector
\* raises, which _execute_command catches.
set_target_position(motor_idx, position) ==
    IF robot /\ target_positions # NoTarget /\ motor_idx \in Motors
    THEN [target_positions EXCEPT ![motor_idx + 1] = position]
    ELSE target_positions

\* The command types each server dispatches.
Dispatched ==
    IF prog = "ws" THEN {"key_press", "key_release", "emergency_stop"}
    ELSE {"key_press", "key_release", "emergency_stop", "set_target", "get_status"}

\* The dispatch of command c raises inside _execute_command: a message that
\* is no object has no get, and _set_target_position of the remote server
\* indexes the target with a motor index outside the vector.
CmdRaises(c) ==
    /\ robot /\ connected
    /\ \/ c = NonObject
       \/ /\ prog = "remote" /\ c.type = "set_target"
          /\ target_positions # NoTarget /\ c.motor_idx \notin Motors

\* A consumer that reads the head of the queue and leaves it there.
queue_get_peek == command_queue

\* command_queue.get(): the queue without the command taken.
queue_get == Tail(command_queue)

\* A consumer thread that ends with the exception.
AfterCommandError_uncaught == "stopped"

\* The consumer after a dispatch that raised: _execute_command logs the
\* exception and returns to the loop of _process_commands.
AfterCommandError == "idle"

\* _process_commands / _execute_command: the consumer takes the next command.
\* It is dropped while the robot is not connected.  emergency_stop and
\* get_status go on to read the bus.
CmdExecute ==
    /\ Server
    /\ pc_cmd = "idle"
    /\ command_queue # <<>>
    /\ LET c == Head(command_queue)
           live == robot /\ connected /\ c.type \in Dispatched
       IN /\ command_queue' = queue_get
          /\ event' = Ev("cmd", c.type, c.key)
          /\ sent' = NoMsg
          /\ target_positions' =
                IF live /\ c.type = "key_press" THEN simulate_key_press(c.key)
                ELSE IF live /\ c.type = "set_target"
                THEN set_target_position(c.motor_idx, c.position)
                ELSE target_positions
          /\ pc_cmd' =
                IF CmdRaises(c) THEN AfterCommandError
                ELSE IF live /\ c.type = "emergency_stop" /\ robot THEN "estop_read"
                ELSE IF live /\ c.type = "get_status" THEN "status_read"
                ELSE "idle"
    /\ bus' = NoBus
    /\ UNCHANGED <<pressed_keys, ctrl_pressed, emergency_stop_active, speed_vars,
                   key_timers, tk_after, is_connected, config_vars, record_vars, client_vars,
                   net_vars, loop_vars, robot, connected, serial_lock, status_vars,
                   init_vars, net_task, nInputs>>

\* _emergency_stop after its read of Present_Position.  The websocket server
\* latches the target and sets the controller's flag and its own; the
\* remote server latches the target and sets the flag of its status only.
\* When the read raises nothing is set.
CmdEstopRead ==
    /\ pc_cmd = "estop_read"
    /\ \/ \E p \in PosSamples :
            /\ target_positions' = p
            /\ emergency_stop_active' = (prog = "ws" \/ emergency_stop_active)
            /\ srv_emergency_stop' = TRUE
            /\ bus' = BusRead(p)
       \/ /\ bus' = NoBus
          /\ UNCHANGED <<target_positions, emergency_stop_active, srv_emergency_stop>>
    /\ pc_cmd' = "idle"
    /\ event' = NoEvent
    /\ sent' = NoMsg
    /\ UNCHANGED <<pressed_keys, ctrl_pressed, speed_vars, key_timers, tk_after,
                   is_connected, config_vars, record_vars, client_vars, net_vars, loop_vars, robot,
                   connected, serial_lock, command_queue, status_positions,
                   status_targets, init_vars, net_task, nInputs>>

\* _update_status of the remote server, called for get_status: after the
\* read the status takes the positions read and a copy of the target.
CmdStatusRead ==
    /\ pc_cmd = "status_read"
    /\ \/ \E p \in PosSamples :
            /\ status_positions' = p
            /\ status_targets' = target_positions
            /\ bus' = BusRead(p)
       \/ /\ bus' = NoBus
          /\ UNCHANGED <<status_positions, status_targets>>
    /\ pc_cmd' = "idle"
    /\ event' = NoEvent
    /\ sent' = NoMsg
    /\ UNCHANGED <<engine_vars, is_connected, config_vars, record_vars, client_vars, net_vars,
                   loop_vars, robot, connected, serial_lock, command_queue,
                   srv_emergency_stop, init_vars, net_task, nInputs>>

\* _send_status_updates: the status task of a client calls the status update.
\* The websocket server (when its rate limit lets it) takes serial_lock
\* around the read; the remote server reads without a lock.
NetStatusBegin ==
    /\ Server
    /\ LoopFree
    /\ nInputs < MaxInputs
    /\ nInputs' = nInputs + 1
    /\ robot /\ connected
    /\ prog = "ws" => serial_lock = "free"
    /\ serial_lock' = IF prog = "ws" THEN "net" ELSE serial_lock
    /\ \E w \in status_tasks : net_owner' = w
    /\ pc_net' = "status_read"
    /\ event' = NoEvent
    /\ sent' = NoMsg
    /\ bus' = NoBus
    /\ UNCHANGED <<engine_vars, is_connected, config_vars, record_vars, client_vars, net_vars,
                   loop_vars, robot, connected, command_queue, status_vars, pc_cmd,
                   init_vars>>

NetStatusRead ==
    /\ pc_net = "status_read"
    /\ \/ \E p \in PosSamples :
            /\ status_positions' = p
            /\ status_targets' = target_positions
            /\ bus' = BusRead(p)
       \/ /\ bus' = NoBus
          /\ UNCHANGED <<status_positions, status_targets>>
    /\ serial_lock' = IF prog = "ws" THEN "free" ELSE serial_lock
    /\ pc_net' = "idle"
    /\ net_owner' = "none"
    /\ event' = NoEvent
    /\ UNCHANGED <<engine_vars, is_connected, config_vars, record_vars, client_vars, net_vars,
                   loop_vars, robot, connected, command_queue, srv_emergency_stop,
                   pc_cmd, init_vars, nInputs>>
    /\ sent' = Sent(net_owner, status_msg')

\* _send_status_updates when the status update reads nothing: the robot is
\* not set or not connected, or the rate limit of the websocket server skips
\* the update.  The status kept is sent as it is.
NetStatusSend ==
    /\ Server
    /\ LoopFree
    /\ prog = "remote" => ~(robot /\ connected)
    /\ nInputs < MaxInputs
    /\ nInputs' = nInputs + 1
    /\ \E w \in status_tasks : sent' = Sent(w, status_msg)
    /\ event' = NoEvent
    /\ bus' = NoBus
    /\ UNCHANGED <<engine_vars, is_connected, config_vars, record_vars, client_vars, net_vars,
                   loop_vars, server_vars>>

\* ------------------------------------------------- _init_robot thread
\* The robot object is created (self.robot is set), or its creation raises.
InitCreate ==
    /\ Server
    /\ pc_init = "start"
    /\ \/ /\ robot' = TRUE
          /\ pc_init' = "connect"
       \/ /\ pc_init' = "failed"
          /\ UNCHANGED robot
    /\ event' = NoEvent
    /\ sent' = NoMsg
    /\ bus' = NoBus
    /\ UNCHANGED <<engine_vars, is_connected, config_vars, record_vars, client_vars, net_vars,
                   loop_vars, connected, serial_lock, command_queue, status_vars,
                   pc_cmd, original_pos, net_task, nInputs>>

\* robot.connect(): opens the bus and initialises the target with the
\* position read.  The remote server reports connected right after it.
InitConnect ==
    /\ pc_init = "connect"
    /\ \/ \E p \in PosSamples :
            /\ target_positions' = p
            /\ is_connected' = TRUE
            /\ connected' = (prog = "remote")
            /\ pc_init' = "read0"
            /\ bus' = BusRead(p)
       \/ /\ pc_init' = "failed"
          /\ connected' = FALSE
          /\ bus' = NoBus
          /\ UNCHANGED <<target_positions, is_connected>>
    /\ event' = NoEvent
    /\ sent' = NoMsg
    /\ UNCHANGED <<pressed_keys, ctrl_pressed, emergency_stop_active, speed_vars,
                   key_timers, tk_after, config_vars, record_vars, client_vars, net_vars,
                   loop_vars, robot, serial_lock, command_queue, status_vars, pc_cmd,
                   original_pos, net_task, nInputs>>

\* The initial _read_current_positions and initialize_target_positions.  The
\* websocket server reports connected after it; the remote server keeps the
\* position as original_pos of its motor test.  A raise ends the
\* initialisation with connected set to False.
InitRead0 ==
    /\ pc_init = "read0"
    /\ \/ \E p \in PosSamples :
            /\ target_positions' = p
            /\ connected' = TRUE
            /\ original_pos' = IF prog = "remote" THEN p ELSE original_pos
            /\ pc_init' = IF prog = "remote" THEN "test1" ELSE "test1_wait"
            /\ bus' = BusRead(p)
       \/ /\ pc_init' = "failed"
          /\ connected' = FALSE
          /\ bus' = NoBus
          /\ UNCHANGED <<target_positions, original_pos>>
    /\ event' = NoEvent
    /\ sent' = NoMsg
    /\ UNCHANGED <<pressed_keys, ctrl_pressed, emergency_stop_active, speed_vars,
                   key_timers, tk_after, is_connected, config_vars, record_vars, client_vars,
                   net_vars, loop_vars, robot, serial_lock, command_queue,
                   status_vars, pc_cmd, net_task, nInputs>>

\* _test_motor_movement of the websocket server takes serial_lock for each
\* of its two bus sections.
InitTestAcquire ==
    /\ prog = "ws"
    /\ pc_init \in {"test1_wait", "test2_wait"}
    /\ serial_lock = "free"
    /\ serial_lock' = "init"
    /\ pc_init' = IF pc_init = "test1_wait" THEN "test1" ELSE "test2"
    /\ event' = NoEvent
    /\ sent' = NoMsg
    /\ bus' = NoBus
    /\ UNCHANGED <<engine_vars, is_connected, config_vars, record_vars, client_vars, net_vars,
                   loop_vars, robot, connected, command_queue, status_vars, pc_cmd,
                   original_pos, net_task, nInputs>>

\* shoulder_pan moved by the test offset.
test_pos(orig) == [orig EXCEPT ![MOTOR_SHOULDER_PAN + 1] = @ + TEST_OFFSET]

\* First section of the motor test: the websocket server reads the position
\* and writes the test position; the remote server writes it from the
\* position read before.  A raise is caught and ends the test.
InitTest1 ==
    /\ pc_init = "test1"
    /\ \/ /\ prog = "ws"
          /\ \E p \in PosSamples :
                /\ original_pos' = p
                /\ bus' = [read |-> p, write |-> test_pos(p)]
          /\ pc_init' = "test2_wait"
       \/ /\ prog = "remote"
          /\ bus' = BusWrite(test_pos(original_pos))
          /\ pc_init' = "sleep1"
          /\ UNCHANGED original_pos
       \/ /\ pc_init' = "done"
          /\ original_pos' = NoVec
          /\ bus' = NoBus
    /\ serial_lock' = IF prog = "ws" THEN "free" ELSE serial_lock
    /\ event' = NoEvent
    /\ sent' = NoMsg
    /\ UNCHANGED <<engine_vars, is_connected, config_vars, record_vars, client_vars, net_vars,
                   loop_vars, robot, connected, command_queue, status_vars, pc_cmd,
                   net_task, nInputs>>

\* time.sleep(2.0) of the remote server between its two writes.
InitSleep ==
    /\ pc_init = "sleep1"
    /\ pc_init' = "test2"
    /\ event' = NoEvent
    /\ sent' = NoMsg
    /\ bus' = NoBus
    /\ UNCHANGED <<engine_vars, is_connected, config_vars, record_vars, client_vars, net_vars,
                   loop_vars, robot, connected, serial_lock, command_queue,
                   status_vars, pc_cmd, original_pos, net_task, nInputs>>

\* Second section: the original position is written back, or the write
\* raises and is caught.
InitTest2 ==
    /\ pc_init = "test2"
    /\ \/ bus' = BusWrite(original_pos)
       \/ bus' = NoBus
    /\ pc_init' = "done"
    /\ original_pos' = NoVec
    /\ serial_lock' = IF prog = "ws" THEN "free" ELSE serial_lock
    /\ event' = NoEvent
    /\ sent' = NoMsg
    /\ UNCHANGED <<engine_vars, is_connected, config_vars, record_vars, client_vars, net_vars,
                   loop_vars, robot, connected, command_queue, status_vars, pc_cmd,
                   net_task, nInputs>>

\* ------------------------------------------------------ specification
Next ==
    \/ LocalConnect
    \/ TeleopBegin
    \/ TeleopGuiRaises
    \/ \E key \in GuiKeys : GuiKeyPress(key)
    \/ \E key \in GuiKeys : GuiKeyRelease(key)
    \/ \E key \in Keys : GuiTimerFire(key)
    \/ GuiEscapePress
    \/ GuiEscapeRead
    \/ GuiDone
    \/ WsTickBegin
    \/ TickRead
    \/ TickCompute
    \/ TickWrite
    \/ \E w \in Clients : ClientConnect(w)
    \/ \E w \in Clients : ClientClose(w)
    \/ \E w \in Clients : ClientBadJson(w)
    \/ \E w \in Clients : ClientNonObject(w)
    \/ \E c \in Commands : ClientMessage(c)
    \/ CmdExecute
    \/ CmdEstopRead
    \/ CmdStatusRead
    \/ NetStatusBegin
    \/ NetStatusRead
    \/ NetStatusSend
    \/ InitCreate
    \/ InitConnect
    \/ InitRead0
    \/ InitTestAcquire
    \/ InitTest1
    \/ InitSleep
    \/ InitTest2

Spec == Init /\ [][Next]_vars

\* ------------------------------------------------------------ claims
\* The command being executed reaches a server whose robot is set and
\* connected, so _execute_command dispatches it.
Live == Server /\ robot /\ connected

\* C1: in every reachable state of a server at most one activity is inside a
\* read or write of the arm's motor bus.
C1_BusExclusive == Server => Cardinality(InBus) <= 1

\* C2: while the emergency stop is active no input other than the stop
\* toggle (a key press, key release or timer of the window, a key_press,
\* key_release or set_target command) changes the target.
C2_InputsBlocked ==
    [][(emergency_stop_active /\ emergency_stop_active'
        /\ event'.op \in {"key_press", "key_release", "repeat", "set_target"})
        => target_positions' = target_positions]_vars

\* C3: a tick that began after the server processed an emergency_stop
\* command writes, for every motor, the position it read in that tick.
C3_StoppedTickHolds ==
    (Server /\ tick_stop /\ pc_ctl = "write") => goal = cur

\* The step that ends the read of an activation: on_escape_press of the
\* window, _emergency_stop of a server.
EscapeReadStep == pc_ctl = "esc_read" /\ pc_ctl' = "gui"
EstopReadStep == pc_cmd = "estop_read" /\ pc_cmd' = "idle"

\* C4: a call of calculate_goal_positions under emergency stop returns the
\* current position it was given, without gravity compensation, and leaves
\* the target equal to that position.
C4_StopGoalIsCurrent ==
    [][(pc_ctl = "compute" /\ pc_ctl' = "write" /\ emergency_stop_active)
        => (goal' = cur /\ target_positions' = cur)]_vars

C4_Witness ==
    /\ prog = "local" /\ pc_ctl = "write" /\ emergency_stop_active
    /\ cur = PosOther /\ goal = PosOther /\ target_positions = PosOther

\* C5: the emergency flag changes only on a stop toggle (<Escape> in the
\* window, emergency_stop from a client) and every stop toggle flips it.
C5_StopToggles ==
    [][(emergency_stop_active' # emergency_stop_active)
        <=> (event'.op = "escape" \/ EstopReadStep)]_vars

\* C6: right after an activation whose read succeeded no key is held, no
\* repeat is pending and the target is the position read.
C6_ActivationClears ==
    [][((EscapeReadStep \/ EstopReadStep) /\ bus'.read # NoVec)
        => /\ pressed_keys' = {}
           /\ key_timers' = {}
           /\ tk_after' = {}
           /\ target_positions' = bus'.read]_vars

\* C7: when the read of an activation fails the handler returns, the target
\* is as it was and the emergency flag is set.
C7_FailedReadStillStops ==
    [][((EscapeReadStep \/ EstopReadStep) /\ bus'.read = NoVec)
        => (target_positions' = target_positions /\ emergency_stop_active')]_vars

\* The target after the delta of a mapped key is added once, unclamped.
PlusDelta(key) ==
    [i \in 1 .. Len(target_positions) |->
        IF i - 1 = key_mapping[key][1]
        THEN target_positions[i] + key_mapping[key][2]
        ELSE target_positions[i]]

\* C8: with no emergency stop, every window event leaves the target as it
\* was, except the first press of a mapped key and each repeat of a held
\* mapped key, which add exactly the key's delta: the target is the initial
\* position plus the sum of the deltas applied, never clamped.
C8_DeltasAccumulate ==
    [][(event'.src = "gui" /\ event'.op # "escape" /\ ~emergency_stop_active)
        => target_positions' =
              IF \/ /\ event'.op = "key_press"
                    /\ event'.key \in DOMAIN key_mapping
                    /\ event'.key \notin pressed_keys
                 \/ /\ event'.op = "repeat"
                    /\ event'.key \in DOMAIN key_mapping
                    /\ event'.key \in pressed_keys
              THEN PlusDelta(event'.key)
              ELSE target_positions]_vars

C8_Witness ==
    /\ prog = "local" /\ event = Ev("gui", "repeat", "w") /\ nInputs = 2
    /\ target_positions = [PosOther EXCEPT ![MOTOR_SHOULDER_LIFT + 1] = @ + 100]

\* C9: a key_press command for a mapped key, dispatched with no emergency
\* stop, adds the key's delta to the target at once and leaves the key held
\* with a repeat scheduled, so that the delta is added again while no
\* key_release arrives.
C9_RemoteHoldRepeats ==
    [][(event'.src = "cmd" /\ event'.op = "key_press" /\ Live
        /\ ~emergency_stop_active /\ target_positions # NoTarget
        /\ event'.key \in DOMAIN key_mapping)
        => /\ target_positions' = PlusDelta(event'.key)
           /\ event'.key \in pressed_keys'
           /\ event'.key \in tk_after']_vars

\* C10: the release of a held key removes it from the pressed keys, cancels
\* its repeat, and leaves target, speed profile and emergency flag as they
\* were.
C10_ReleaseEffect ==
    [][(event'.src = "gui" /\ event'.op = "key_release"
        /\ event'.key \in pressed_keys)
        => /\ pressed_keys' = pressed_keys \ {event'.key}
           /\ event'.key \notin key_timers'
           /\ event'.key \notin tk_after'
           /\ target_positions' = target_positions
           /\ speed_vars' = speed_vars
           /\ emergency_stop_active' = emergency_stop_active]_vars

C10_Witness ==
    /\ prog = "local" /\ event = Ev("gui", "key_release", "w") /\ nInputs = 2
    /\ pressed_keys = {} /\ tk_after = {} /\ ~emergency_stop_active
    /\ target_positions = [PosOther EXCEPT ![MOTOR_SHOULDER_LIFT + 1] = @ + 50]

\* ------------------------------------------- the speed keys, any profile
\* Speed profiles the window can have reached by speed keys: every scale
\* from 0.1 to 5.0 in steps of 0.1, and the hold speeds that steps of 0.5
\* from the default and from the bounds reach.
SpeedScales == SPEED_SCALE_MIN .. SPEED_SCALE_MAX
HoldSpeeds ==
    {h \in HOLD_SPEED_MIN .. HOLD_SPEED_MAX :
        h % HOLD_STEP = 0 \/ h % HOLD_STEP = HOLD_SPEED_MIN % HOLD_STEP}

\* The local program with its window dispatching events, after speed keys
\* brought the profile to any of these values; Ctrl is held or not.
InitSpeed ==
    /\ prog = "local"
    /\ max_relative_target = None
    /\ ctrl_pressed \in BOOLEAN
    /\ pressed_keys = IF ctrl_pressed THEN {"control_l"} ELSE {}
    /\ emergency_stop_active = FALSE
    /\ speed_scale \in SpeedScales
    /\ hold_speed \in HoldSpeeds
    /\ key_mapping = update_key_mapping(speed_scale)
    /\ target_positions = PosOther
    /\ key_timers = {}
    /\ tk_after = {}
    /\ is_connected = TRUE
    /\ bus = NoBus
    /\ pc_ctl = "gui"
    /\ cur = NoVec
    /\ goal = NoVec
    /\ tick_stop = FALSE
    /\ robot = TRUE
    /\ connected = FALSE
    /\ serial_lock = "free"
    /\ command_queue = <<>>
    /\ srv_emergency_stop = FALSE
    /\ status_positions = NoVec
    /\ status_targets = NoVec
    /\ pc_cmd = "idle"
    /\ pc_init = "none"
    /\ original_pos = NoVec
    /\ pc_net = "idle"
    /\ nInputs = 0
    /\ clients = {}
    /\ handlers = {}
    /\ status_tasks = {}
    /\ net_owner = "none"
    /\ sent = NoMsg
    /\ event = NoEvent
    /\ RecordIdle
    /\ ClientIdle

NextSpeed ==
    \/ \E key \in SpeedKeys \cup ResetKeys \cup CtrlKeys : GuiKeyPress(key)
    \/ \E key \in SpeedKeys \cup ResetKeys \cup CtrlKeys : GuiKeyRelease(key)

SpecSpeed == InitSpeed /\ [][NextSpeed]_vars

\* The event handled by the step is the first press of `key`.
FirstPress(key) ==
    /\ event' = Ev("gui", "key_press", key)
    /\ key \notin pressed_keys
    /\ ~emergency_stop_active

\* C11: speed_scale stays within [0.1, 5.0] and hold_speed within
\* [0.1, 10.0]; an adjustment that would cross a bound sets the scalar to
\* that bound, and a reset sets the default.
C11_SpeedBounds ==
    /\ [](/\ speed_scale \in SPEED_SCALE_MIN .. SPEED_SCALE_MAX
          /\ hold_speed \in HOLD_SPEED_MIN .. HOLD_SPEED_MAX)
    /\ [][/\ (FirstPress("plus") /\ ~ctrl_pressed
                /\ speed_scale + SPEED_STEP > SPEED_SCALE_MAX)
              => speed_scale' = SPEED_SCALE_MAX
          /\ (FirstPress("minus") /\ ~ctrl_pressed
                /\ speed_scale - SPEED_STEP < SPEED_SCALE_MIN)
              => speed_scale' = SPEED_SCALE_MIN
          /\ (FirstPress("plus") /\ ctrl_pressed
                /\ hold_speed + HOLD_STEP > HOLD_SPEED_MAX)
              => hold_speed' = HOLD_SPEED_MAX
          /\ (FirstPress("minus") /\ ctrl_pressed
                /\ hold_speed - HOLD_STEP < HOLD_SPEED_MIN)
              => hold_speed' = HOLD_SPEED_MIN
          /\ (FirstPress("asterisk") /\ ~ctrl_pressed)
              => speed_scale' = DEFAULT_SPEED_SCALE
          /\ (FirstPress("asterisk") /\ ctrl_pressed)
              => hold_speed' = DEFAULT_HOLD_SPEED]_vars

C11_Witness ==
    /\ event = Ev("gui", "key_press", "minus") /\ nInputs = 1
    /\ ctrl_pressed /\ hold_speed = HOLD_SPEED_MIN

\* C12: for every key of the table, the effective delta in key_mapping is
\* base delta x base speed x the current speed_scale (base deltas are kept
\* doubled), and the motor is that of the base table.
C12_MappingConsistent ==
    /\ DOMAIN key_mapping = DOMAIN base_key_mapping
    /\ \A k \in DOMAIN base_key_mapping :
          /\ key_mapping[k][1] = base_key_mapping[k][1]
          /\ 2 * key_mapping[k][2] =
                base_key_mapping[k][2] * DEFAULT_BASE_SPEED * speed_scale

C12_Witness ==
    /\ event = Ev("gui", "key_press", "plus") /\ ~ctrl_pressed
    /\ speed_scale = SPEED_SCALE_MAX
    /\ key_mapping["w"] = <<MOTOR_SHOULDER_LIFT, 250>>

\* C13: a press of a speed-adjust key (plus, minus, asterisk, with or without
\* Ctrl) or of a Ctrl key leaves the target positions, the emergency stop and
\* the repeat timers as they were: no repeat is scheduled for such a key.
C13_SpeedKeysFrame ==
    [][(/\ event'.op = "key_press"
        /\ event'.key \in SpeedKeys \cup CtrlKeys)
       => /\ target_positions' = target_positions
          /\ key_timers' = key_timers
          /\ tk_after' = tk_after
          /\ emergency_stop_active' = emergency_stop_active
          /\ event'.key \notin key_timers']_vars

C13_Witness ==
    /\ event = Ev("gui", "key_press", "plus") /\ nInputs = 2
    /\ ctrl_pressed /\ hold_speed = DEFAULT_HOLD_SPEED + HOLD_STEP
    /\ "plus" \in pressed_keys /\ key_timers = {}

\* C14: with the emergency stop inactive, calculate_goal_positions returns the
\* target plus 6.0 degrees on shoulder_lift and 3.0 degrees on elbow_flex, the
\* target as it is on every other motor, and leaves the target unchanged.
C14_GoalIsBiasedTarget ==
    [][(pc_ctl = "compute" /\ pc_ctl' = "write" /\ ~emergency_stop_active)
        => /\ DOMAIN goal' = DOMAIN target_positions
           /\ \A i \in DOMAIN target_positions :
                 goal'[i] = target_positions[i]
                            + (IF i = 2 THEN 60 ELSE IF i = 3 THEN 30 ELSE 0)
           /\ target_positions' = target_positions]_vars

C14_Witness ==
    /\ pc_ctl = "write" /\ ~emergency_stop_active
    /\ target_positions = [PosOther EXCEPT ![2] = 70]
    /\ goal = <<10, 130, 60, 40, 50, 60>>

\* ------------------------------------------- the relative limit alone
\* ensure_safe_goal_position applied to sampled arguments: the goal asked for
\* is held in target_positions, the present position in cur, the limit in
\* max_relative_target; the value returned is stored in goal.
ClampVec(a, b) == [i \in 1 .. NumMotors |-> IF i = 1 THEN a ELSE IF i = 2 THEN b ELSE 0]
ClampGoals == {ClampVec(a, b) : a, b \in {-30, 0, 10, 30}}
ClampPresents == {ClampVec(a, b) : a, b \in {-10, 0, 20}}
ClampLimits ==
    {Scalar(m) : m \in {0, 10, 25}}
        \cup {PerMotor(ClampVec(a, b)) : a, b \in {0, 5, 40}}

InitClamp ==
    /\ prog = "local"
    /\ max_relative_target \in ClampLimits
    /\ target_positions \in ClampGoals
    /\ cur \in ClampPresents
    /\ goal = NoVec
    /\ pc_ctl = "compute"
    /\ pressed_keys = {}
    /\ ctrl_pressed = FALSE
    /\ emergency_stop_active = FALSE
    /\ speed_scale = DEFAULT_SPEED_SCALE
    /\ hold_speed = DEFAULT_HOLD_SPEED
    /\ key_mapping = update_key_mapping(DEFAULT_SPEED_SCALE)
    /\ key_timers = {}
    /\ tk_after = {}
    /\ is_connected = TRUE
    /\ bus = NoBus
    /\ tick_stop = FALSE
    /\ robot = TRUE
    /\ connected = FALSE
    /\ serial_lock = "free"
    /\ command_queue = <<>>
    /\ srv_emergency_stop = FALSE
    /\ status_positions = NoVec
    /\ status_targets = NoVec
    /\ pc_cmd = "idle"
    /\ pc_init = "none"
    /\ original_pos = NoVec
    /\ pc_net = "idle"
    /\ nInputs = 0
    /\ clients = {}
    /\ handlers = {}
    /\ status_tasks = {}
    /\ net_owner = "none"
    /\ sent = NoMsg
    /\ event = NoEvent
    /\ RecordIdle
    /\ ClientIdle

SafeGoal ==
    /\ pc_ctl = "compute"
    /\ goal' = ensure_safe_goal_position(target_positions, cur, max_relative_target)
    /\ pc_ctl' = "write"
    /\ UNCHANGED <<engine_vars, is_connected, bus, config_vars, record_vars, client_vars, net_vars,
                   cur, tick_stop, server_vars, nInputs, event, sent>>

NextClamp == SafeGoal

SpecClamp == InitClamp /\ [][NextClamp]_vars

\* C15: for every goal, present position and non-negative limit (one float
\* or one per motor), ensure_safe_goal_position returns, motor by motor,
\* present + clamp(goal - present, -limit, +limit); the result is never
\* farther than the limit from the present position, and a goal within the
\* limit is returned as it is.
C15_ClampRelative ==
    pc_ctl = "write" =>
        /\ DOMAIN goal = DOMAIN target_positions
        /\ \A i \in DOMAIN target_positions :
              LET m == IF max_relative_target.kind = "float"
                       THEN max_relative_target.val
                       ELSE max_relative_target.val[i]
                  d == target_positions[i] - cur[i]
              IN /\ goal[i] = cur[i] + (IF d < -m THEN -m ELSE IF d > m THEN m ELSE d)
                 /\ goal[i] - cur[i] <= m
                 /\ cur[i] - goal[i] <= m
                 /\ (d <= m /\ -d <= m) => goal[i] = target_positions[i]

C15_Witness ==
    /\ pc_ctl = "write"
    /\ max_relative_target = PerMotor(ClampVec(5, 40))
    /\ cur = ClampVec(20, -10)
    /\ target_positions = ClampVec(-30, 10)
    /\ goal = ClampVec(15, 10)

\* C16: the relative limit is a stage before every write to the follower arm:
\* when config.max_relative_target is not None, every goal that a tick writes
\* is within that limit of the present position the tick read, on every
\* motor; when it is None the goal computed is written as it is.
C16_RelativeLimitBeforeWrite ==
    [][(pc_ctl = "write" /\ bus'.write # NoVec)
        => IF max_relative_target.kind = "None"
           THEN bus'.write = goal
           ELSE \A i \in DOMAIN cur :
                   /\ bus'.write[i] - cur[i] <= tensor(max_relative_target)[i]
                   /\ cur[i] - bus'.write[i] <= tensor(max_relative_target)[i]]_vars

\* A step of a server's control loop in which the read or the write of the
\* tick raises: the loop leaves the bus call and nothing was transferred.
TickFails ==
    /\ Server
    /\ pc_ctl \in {"read", "write"}
    /\ pc_ctl' # pc_ctl
    /\ bus' = NoBus

\* C17: when the read or the write of a server's tick fails, the tick is over
\* without a write, serial_lock is free again in the websocket server, and
\* the loop is back at the top of its cycle, with robot and connected as
\* they were, so that later ticks run; a server's loop is never stopped.
C17_TickFailureContained ==
    /\ [][TickFails
           => /\ pc_ctl' = "idle"
              /\ bus'.write = NoVec
              /\ prog = "ws" => serial_lock' = "free"
              /\ UNCHANGED <<robot, connected>>]_vars
    /\ [](Server => pc_ctl # "stopped")

\* In the websocket server only a tick whose read raised leaves tick_stop set
\* while the loop is idle: the write, done or failed, clears it.
C17_Witness ==
    /\ prog = "ws" /\ pc_ctl = "idle" /\ tick_stop
    /\ serial_lock = "free" /\ robot /\ connected
    /\ bus = NoBus

\* ------------------------------- the websocket server, fairly scheduled
\* The threads of the websocket server alone.  A thread that can take a step
\* is scheduled in the end (weak fairness of its steps).  A thread waiting for
\* serial_lock gets it in the end if it is free again and again (strong
\* fairness of the two acquisitions): every holder sleeps after its section,
\* the loop for 1/fps and the motor test for 2 s.  Clients and the status
\* timer are free to stay silent.
InitWs == Init /\ prog = "ws"

\* The commands sent here: one that moves the target and one that reads the
\* bus outside serial_lock.
WsCommands == {c \in Commands : c.type \in {"key_press", "emergency_stop"}}

NextWs ==
    \/ WsTickBegin
    \/ TickRead
    \/ TickCompute
    \/ TickWrite
    \/ \E w \in Clients : ClientConnect(w)
    \/ \E c \in WsCommands : ClientMessage(c)
    \/ CmdExecute
    \/ CmdEstopRead
    \/ NetStatusBegin
    \/ NetStatusRead
    \/ NetStatusSend
    \/ InitCreate
    \/ InitConnect
    \/ InitRead0
    \/ InitTestAcquire
    \/ InitTest1
    \/ InitTest2

FairWs ==
    /\ SF_vars(WsTickBegin)
    /\ WF_vars(TickRead) /\ WF_vars(TickCompute) /\ WF_vars(TickWrite)
    /\ WF_vars(CmdExecute) /\ WF_vars(CmdEstopRead)
    /\ WF_vars(NetStatusRead)
    /\ WF_vars(InitCreate) /\ WF_vars(InitConnect) /\ WF_vars(InitRead0)
    /\ SF_vars(InitTestAcquire)
    /\ WF_vars(InitTest1) /\ WF_vars(InitTest2)

SpecWsFair == InitWs /\ [][NextWs]_vars /\ FairWs

\* C18: in the websocket server no thread waits for ever: serial_lock, once
\* taken, is free again later; once the robot is set and connected the
\* control loop begins a tick again and again; and a command on the queue is
\* taken off it by the consumer later.
C18_NoDeadlock ==
    /\ (serial_lock # "free") ~> (serial_lock = "free")
    /\ [](Live => []<>(pc_ctl = "read"))
    /\ [](Live => []<>(pc_ctl = "idle"))
    /\ \A n \in 1 .. MaxQueue :
          (Len(command_queue) = n) ~> (Len(command_queue) < n)

C18_Witness ==
    /\ prog = "ws" /\ Live
    /\ nInputs = MaxInputs
    /\ event.src = "cmd" /\ command_queue = <<>>
    /\ serial_lock = "ctl" /\ pc_ctl = "read"

\* C19: when a connection is opened the server sends that client one welcome
\* message, in the step in which the client joins and in no other, and a
\* status_update or an ack goes only to a client that has joined before; the
\* welcome has a status field holding the current status: connected,
\* positions, target_positions and emergency_stop.
C19_WelcomeFirst ==
    [][/\ \A w \in clients' \ clients :
             sent'.to = w /\ sent'.msg.type = "welcome"
       /\ sent'.msg.type = "welcome" => sent'.to \in clients' \ clients
       /\ sent'.msg.type \in {"status_update", "ack"} => sent'.to \in clients
       /\ sent'.msg.type = "welcome"
             => /\ "status" \in DOMAIN sent'.msg
                /\ sent'.msg.status =
                      [connected |-> connected', positions |-> status_positions',
                       target_positions |-> status_targets',
                       emergency_stop |-> srv_emergency_stop']]_vars

\* C20: the step that accepts a message of a client (a JSON object, put at
\* the end of the queue) sends that client one ack with the type of the
\* message, whatever the state of the robot and whatever the type; the ack
\* leaves while the command is still on the queue, and no other step sends
\* an ack.
C20_AckPerMessage ==
    [][/\ (/\ Len(command_queue') = Len(command_queue) + 1
           /\ command_queue'[Len(command_queue')] # NonObject)
             => /\ sent'.msg.type = "ack"
                /\ sent'.to \in clients
                /\ sent'.msg.command = command_queue'[Len(command_queue')].type
                /\ SubSeq(command_queue', 1, Len(command_queue)) = command_queue
       /\ sent'.msg.type = "ack"
             => Len(command_queue') = Len(command_queue) + 1]_vars

C20_Witness ==
    /\ prog = "ws" /\ ~connected
    /\ sent = Sent("c1", [type |-> "ack", command |-> "get_status"])
    /\ Len(command_queue) = 2
    /\ command_queue[2].type = "get_status"

\* The engine state that a message may act on.
EngineUnchanged ==
    UNCHANGED <<target_positions, pressed_keys, emergency_stop_active, speed_vars,
                srv_emergency_stop>>

\* C21: a malformed message (not valid JSON, valid JSON that is not an
\* object, an object of a type the server does not dispatch) changes no
\* engine state, neither when it is received nor when it is taken off the
\* queue, and the client that sent it stays in self.clients with its status
\* task alive.
C21_MalformedDropped ==
    [][/\ (event'.src = "net" /\ event'.op \in {"bad_json", "non_object"})
             => /\ EngineUnchanged
                /\ event'.key \in clients'
                /\ event'.key \in status_tasks'
       /\ (/\ Len(command_queue') = Len(command_queue) + 1
           /\ command_queue'[Len(command_queue')].type \notin Dispatched)
             => EngineUnchanged /\ UNCHANGED net_vars
       /\ (event'.src = "cmd" /\ event'.op \notin Dispatched)
             => EngineUnchanged /\ UNCHANGED net_vars]_vars

\* C22: commands are dispatched in the order in which the server received
\* them: a message received goes behind those waiting, the command
\* dispatched is the one that has waited longest, and it is dispatched only
\* when the consumer has finished with the one before it.
C22_DispatchInOrder ==
    [][/\ Len(command_queue') > Len(command_queue)
             => /\ Len(command_queue') = Len(command_queue) + 1
                /\ SubSeq(command_queue', 1, Len(command_queue)) = command_queue
       /\ event'.src = "cmd"
             => /\ pc_cmd = "idle"
                /\ command_queue # <<>>
                /\ event'.op = Head(command_queue).type
                /\ command_queue' = Tail(command_queue)
       /\ Len(command_queue') < Len(command_queue) => event'.src = "cmd"]_vars

C22_Witness ==
    /\ Live /\ nInputs = 2
    /\ event = Ev("cmd", "key_press", "w")
    /\ command_queue = <<Cmd("emergency_stop", "none", -1, 0)>>

\* ------------------------------------------------ two clients of a server
\* A server with two connections, each of which may open, send and close on
\* its own, next to the command consumer, the control loop and the
\* initialisation thread.
Peers == {"c1", "c2"}

InitNet == Init /\ Server

NextNet ==
    \/ TeleopBegin
    \/ TeleopGuiRaises
    \/ GuiDone
    \/ WsTickBegin
    \/ TickRead
    \/ TickCompute
    \/ TickWrite
    \/ \E w \in Peers : ClientConnect(w)
    \/ \E w \in Peers : ClientClose(w)
    \/ \E w \in Peers : ClientNonObject(w)
    \/ \E c \in WsCommands : ClientMessage(c)
    \/ CmdExecute
    \/ CmdEstopRead
    \/ NetStatusBegin
    \/ NetStatusRead
    \/ NetStatusSend
    \/ InitCreate
    \/ InitConnect
    \/ InitRead0
    \/ InitTestAcquire
    \/ InitTest1
    \/ InitSleep
    \/ InitTest2

SpecNet == InitNet /\ [][NextNet]_vars

\* The step in which the handler of connection w ends: the connection closed
\* or the handler raised.
HandlerEnds(w) == w \in handlers /\ w \notin handlers'

\* C23: the set of clients holds exactly the connections whose handler is
\* running, and a status task runs for members only; the step in which one
\* connection's handler ends takes that connection out of the set and ends
\* its status task, and leaves the other connections' membership and status
\* tasks, the command consumer and the control loop as they were.
C23_CloseIsolated ==
    /\ [](clients = handlers /\ status_tasks \subseteq clients)
    /\ [][\A w \in Peers : HandlerEnds(w) =>
            /\ w \notin clients' /\ w \notin status_tasks'
            /\ clients' \ {w} = clients \ {w}
            /\ status_tasks' \ {w} = status_tasks \ {w}
            /\ UNCHANGED <<pc_cmd, loop_vars, engine_vars>>
            /\ \/ command_queue' = command_queue
               \/ command_queue' = Append(command_queue, NonObject)]_vars

\* One connection's handler has ended while the other's is running with its
\* status task.
C23_Witness ==
    /\ event.src = "net" /\ event.op \in {"close", "non_object"}
    /\ event.key = "c1"
    /\ clients = {"c2"} /\ status_tasks = {"c2"}
    /\ Live

\* The steps of _init_robot that can end it in its except clause are over:
\* what is left is the motor test, which catches its own exceptions.
InitSucceeded == pc_init \notin {"start", "connect", "read0", "failed"}

\* The last step sent a welcome or status message that reports the robot as
\* connected.
SentConnected ==
    /\ sent.msg.type \in {"welcome", "status_update"}
    /\ IF prog = "ws" THEN sent.msg.robot_connected
       ELSE IF sent.msg.type = "welcome" THEN sent.msg.status.connected
       ELSE sent.msg.data.connected

\* C24: a welcome or status message of a server reports connected only once
\* no step of the initialisation can fail any more; the flag is false after
\* a failed initialisation, and no step takes it from true back to false.
C24_ConnectedAfterInit ==
    /\ [](Server => /\ SentConnected => InitSucceeded
                    /\ connected => InitSucceeded
                    /\ pc_init = "failed" => ~connected)
    /\ [][Server /\ connected => connected']_vars

\* C25: the set of pressed keys follows the commands of the clients in the
\* order in which they are processed: after a key_press of a mapped key is
\* processed (no stop being active) the key is in the set, and after a
\* key_release is processed it is not; so when all commands are processed
\* the set holds the keys whose last processed event was a press.
C25_PressStateTracksCommands ==
    [][(Live /\ ~emergency_stop_active /\ event'.src = "cmd")
         => /\ (event'.op = "key_press" /\ event'.key \in DOMAIN key_mapping)
                  => event'.key \in pressed_keys'
            /\ event'.op = "key_release" => event'.key \notin pressed_keys']_vars

\* The control loop of the websocket server is inside the section of its
\* tick that reads the arm, computes the goal (with the resync of the
\* target) and writes it: the section under serial_lock.
InTick == prog = "ws" /\ serial_lock = "ctl"

\* C26: the operations that write the target, the pressed keys, the speed
\* profile or the stop flag exclude one another: while the control loop is
\* inside its tick, no step of another activity (a command handler) writes
\* any of them.
C26_OneExclusionDomain ==
    [][(InTick /\ pc_ctl' = pc_ctl)
         => UNCHANGED <<target_positions, pressed_keys, emergency_stop_active,
                        speed_vars>>]_vars

\* C27: a reset called right after a reset changes nothing: when the last
\* event handled was the press of one reset key and the step handles the
\* first press of the other, with Ctrl as it was, the speed scale, the hold
\* speed and the key mapping stay as the first reset left them.
C27_ResetIdempotent ==
    [][\A k1, k2 \in ResetKeys :
         (event = Ev("gui", "key_press", k1) /\ k1 \in pressed_keys
          /\ FirstPress(k2))
            => UNCHANGED speed_vars]_vars

\* Both resets were called, from a profile away from the defaults.
C27_Witness ==
    /\ event = Ev("gui", "key_press", "multiply")
    /\ {"asterisk", "multiply"} \subseteq pressed_keys
    /\ nInputs = 2
    /\ speed_scale = DEFAULT_SPEED_SCALE
    /\ key_mapping = update_key_mapping(DEFAULT_SPEED_SCALE)
    /\ hold_speed # DEFAULT_HOLD_SPEED

\* ------------------------------------------------------ the record loop
\* record() of control_robot.py: the loop that records cfg.num_episodes
\* episodes, next to the keyboard listener that sets the flags of `events`.
MaxEpisodes == 2
RecordKeys == {"right", "left", "esc"}

\* The listener's on_press: right arrow asks for an early exit, left arrow
\* for an early exit and a re-record, escape for the end of the recording.
on_press(key) ==
    [exit_early |-> TRUE,
     rerecord_episode |-> (events.rerecord_episode \/ key = "left"),
     stop_recording |-> (events.stop_recording \/ key = "esc")]

\* What the record loop leaves alone.
robot_vars == <<engine_vars, is_connected, config_vars, loop_vars, server_vars,
                net_vars, client_vars>>

InitRecord ==
    /\ prog = "record"
    /\ max_relative_target = None
    /\ pressed_keys = {}
    /\ ctrl_pressed = FALSE
    /\ emergency_stop_active = FALSE
    /\ speed_scale = DEFAULT_SPEED_SCALE
    /\ hold_speed = DEFAULT_HOLD_SPEED
    /\ key_mapping = update_key_mapping(DEFAULT_SPEED_SCALE)
    /\ target_positions = NoTarget
    /\ key_timers = {}
    /\ tk_after = {}
    /\ is_connected = TRUE
    /\ bus = NoBus
    /\ pc_ctl = "idle"
    /\ cur = NoVec
    /\ goal = NoVec
    /\ tick_stop = FALSE
    /\ robot = TRUE
    /\ connected = FALSE
    /\ serial_lock = "free"
    /\ command_queue = <<>>
    /\ srv_emergency_stop = FALSE
    /\ status_positions = NoVec
    /\ status_targets = NoVec
    /\ pc_cmd = "idle"
    /\ pc_init = "none"
    /\ original_pos = NoVec
    /\ pc_net = "idle"
    /\ nInputs = 0
    /\ clients = {}
    /\ handlers = {}
    /\ status_tasks = {}
    /\ net_owner = "none"
    /\ sent = NoMsg
    /\ event = NoEvent
    /\ events = NoEvents
    /\ dataset = [num_episodes |-> 0, episode_buffer |-> <<>>]
    /\ cfg \in {[num_episodes |-> n] : n \in 1 .. MaxEpisodes}
    /\ recorded_episodes = 0
    /\ pc_rec = "top"
    /\ ClientIdle

\* A key is tapped while the listener runs.
KeyTap(key) ==
    /\ pc_rec \notin {"none", "done"}
    /\ nInputs < MaxInputs
    /\ events' = on_press(key)
    /\ nInputs' = nInputs + 1
    /\ event' = Ev("key", "tap", key)
    /\ sent' = NoMsg
    /\ bus' = NoBus
    /\ UNCHANGED <<robot_vars, dataset, cfg, recorded_episodes, pc_rec>>

\* A step of the loop itself: no key is handled, nothing is sent.
RecordStep(op) ==
    /\ event' = Ev("rec", op, "none")
    /\ sent' = NoMsg
    /\ bus' = NoBus
    /\ UNCHANGED <<robot_vars, cfg, nInputs>>

\* The top of the loop: it ends when enough episodes are recorded, and
\* calls record_episode otherwise.
RecordBegin ==
    /\ pc_rec = "top"
    /\ pc_rec' = IF recorded_episodes >= cfg.num_episodes THEN "stop" ELSE "recording"
    /\ RecordStep("begin")
    /\ UNCHANGED <<events, dataset, recorded_episodes>>

\* record_episode returns, at the end of the episode time or on exit_early
\* (which it takes back): the frames of the episode are in the buffer.
record_episode ==
    /\ pc_rec = "recording"
    /\ dataset' = [dataset EXCEPT !.episode_buffer =
                        Append(@, [episode_index |-> dataset.num_episodes])]
    /\ events' = [events EXCEPT !.exit_early = FALSE]
    /\ pc_rec' = "recorded"
    /\ RecordStep("record_episode")
    /\ UNCHANGED recorded_episodes

\* The environment is reset unless the recording stops or this was the last
\* episode and is not recorded again.
ResetBegin ==
    /\ pc_rec = "recorded"
    /\ pc_rec' = IF ~events.stop_recording
                    /\ (recorded_episodes < cfg.num_episodes - 1
                        \/ events.rerecord_episode)
                 THEN "resetting" ELSE "check"
    /\ RecordStep("reset_begin")
    /\ UNCHANGED <<events, dataset, recorded_episodes>>

\* reset_environment returns, at the end of the reset time or on exit_early.
reset_environment ==
    /\ pc_rec = "resetting"
    /\ events' = [events EXCEPT !.exit_early = FALSE]
    /\ pc_rec' = "check"
    /\ RecordStep("reset_environment")
    /\ UNCHANGED <<dataset, recorded_episodes>>

\* A variant of the re-record branch that keeps the frames in the buffer.
Rerecord_keeps_buffer ==
    /\ events' = [events EXCEPT !.rerecord_episode = FALSE, !.exit_early = FALSE]
    /\ dataset' = dataset
    /\ pc_rec' = "top"
    /\ UNCHANGED recorded_episodes

\* The re-record branch: the flags are taken back, the buffer is cleared and
\* the loop continues.
Rerecord ==
    /\ events' = [events EXCEPT !.rerecord_episode = FALSE, !.exit_early = FALSE]
    /\ dataset' = [dataset EXCEPT !.episode_buffer = <<>>]
    /\ pc_rec' = "top"
    /\ UNCHANGED recorded_episodes

\* After an episode is saved the loop ends if the recording is to stop.
AfterSave == IF events.stop_recording THEN "stop" ELSE "top"

\* dataset.save_episode() and the count: the buffer becomes an episode of
\* the dataset.
SaveEpisode ==
    /\ dataset' = [num_episodes |-> dataset.num_episodes + 1, episode_buffer |-> <<>>]
    /\ recorded_episodes' = recorded_episodes + 1
    /\ pc_rec' = "saved"
    /\ UNCHANGED events

\* The loop after record_episode and the reset: re-record, or save.
RerecordOrSave ==
    /\ pc_rec = "check"
    /\ IF events.rerecord_episode THEN Rerecord ELSE SaveEpisode
    /\ RecordStep(IF events.rerecord_episode THEN "rerecord" ELSE "save_episode")

StopCheck ==
    /\ pc_rec = "saved"
    /\ pc_rec' = AfterSave
    /\ RecordStep("stop_check")
    /\ UNCHANGED <<events, dataset, recorded_episodes>>

\* stop_recording(robot, listener, ...): the listener is stopped.
StopRecording ==
    /\ pc_rec = "stop"
    /\ pc_rec' = "done"
    /\ RecordStep("stop_recording")
    /\ UNCHANGED <<events, dataset, recorded_episodes>>

NextRecord ==
    \/ \E key \in RecordKeys : KeyTap(key)
    \/ RecordBegin
    \/ record_episode
    \/ ResetBegin
    \/ reset_environment
    \/ RerecordOrSave
    \/ StopCheck
    \/ StopRecording

SpecRecord == InitRecord /\ [][NextRecord]_vars

\* The step in which the record loop takes its re-record branch.
RerecordStep == event' = Ev("rec", "rerecord", "none")

\* C28: when the record loop finds rerecord_episode set after an episode, it
\* clears the episode buffer, saves nothing and leaves the count of recorded
\* episodes as it was, takes rerecord_episode and exit_early back to false,
\* and goes back to record the episode of the same index, which is still to
\* be recorded.
C28_RerecordDiscards ==
    [][RerecordStep
         => /\ events.rerecord_episode
            /\ dataset'.episode_buffer = <<>>
            /\ dataset'.num_episodes = dataset.num_episodes
            /\ recorded_episodes' = recorded_episodes
            /\ ~events'.rerecord_episode /\ ~events'.exit_early
            /\ pc_rec' = "top"
            /\ recorded_episodes' < cfg.num_episodes]_vars

\* The frames of the first episode were dropped for a re-record.
C28_Witness ==
    /\ event = Ev("rec", "rerecord", "none")
    /\ pc_rec = "top"
    /\ dataset = [num_episodes |-> 0, episode_buffer |-> <<>>]
    /\ recorded_episodes = 0
    /\ events = NoEvents
    /\ nInputs = 1

\* C29: when the record loop comes to the end of an episode with
\* stop_recording set, it does not go back to record another one: it saves
\* the episode in progress at most and leaves the loop, whatever
\* rerecord_episode and exit_early are; it never saves more than
\* cfg.num_episodes episodes, and when it ends without a stop request it has
\* saved exactly that many.
C29_StopEndsRecording ==
    /\ [][(events.stop_recording /\ pc_rec' # pc_rec)
            => /\ pc_rec = "check" => pc_rec' = "saved"
               /\ pc_rec = "saved" => pc_rec' = "stop"]_vars
    /\ [](/\ dataset.num_episodes <= cfg.num_episodes
          /\ (pc_rec = "done" /\ ~events.stop_recording)
                => dataset.num_episodes = cfg.num_episodes)

\* The control loop of a server is between the start of its read and the end
\* of its write.
TickSection == Server /\ pc_ctl \in {"read", "compute", "write"}

\* The order of the steps of a tick: read, compute (with the limits), write;
\* a step that raises ends the tick.  In the remote server the window's
\* events are dispatched first (Escape reads the arm in its handler).
TickOrder ==
    {<<"idle", "read">>, <<"idle", "gui">>, <<"gui", "esc_read">>,
     <<"esc_read", "gui">>, <<"gui", "read">>, <<"gui", "idle">>,
     <<"read", "compute">>, <<"read", "idle">>, <<"compute", "write">>,
     <<"write", "idle">>}

\* C30: a tick of a server's control loop reads the positions, computes the
\* goal from the positions it read, applies the limits and writes the
\* result, in this order; it holds the exclusive section of the bus from
\* before the read until after the write and gives it back when it ends.
C30_TickInSection ==
    /\ [](TickSection => serial_lock = "ctl")
    /\ [][Server =>
            /\ pc_ctl' # pc_ctl => <<pc_ctl, pc_ctl'>> \in TickOrder
            /\ (pc_ctl = "read" /\ pc_ctl' = "compute") => cur' = bus'.read
            /\ (pc_ctl = "compute" /\ pc_ctl' = "write")
                  => /\ cur' = cur
                     /\ goal' = apply_safety_limits(
                                   IF emergency_stop_active THEN cur
                                   ELSE [target_positions EXCEPT
                                           ![MOTOR_SHOULDER_LIFT + 1] =
                                               @ + SHOULDER_LIFT_BIAS,
                                           ![MOTOR_ELBOW_FLEX + 1] =
                                               @ + ELBOW_FLEX_BIAS])
            /\ (pc_ctl = "write" /\ pc_ctl' = "idle" /\ bus'.write # NoVec)
                  => bus'.write = goal
            /\ (TickSection /\ ~TickSection') => serial_lock' = "free"]_vars

FaultyCommands ==
    { Cmd("set_target", "none", 9, 250), Cmd("key_press", "none", -1, 0),
      Cmd("key_press", "w", -1, 0) }

NextCmd ==
    \/ TeleopBegin
    \/ TeleopGuiRaises
    \/ GuiDone
    \/ WsTickBegin
    \/ TickRead
    \/ TickCompute
    \/ TickWrite
    \/ \E w \in Clients : ClientConnect(w)
    \/ \E w \in Clients : ClientNonObject(w)
    \/ \E c \in FaultyCommands : ClientMessage(c)
    \/ CmdExecute
    \/ InitCreate
    \/ InitConnect
    \/ InitRead0

SpecCmd == InitNet /\ [][NextCmd]_vars

\* C32: when the dispatch of a command raises, the exception stays in that
\* dispatch: the consumer is back in its loop, where it takes the next
\* command, no connection is closed, the control loop is where it was, and
\* the controller and the server's flags are unchanged.
C32_DispatchErrorConfined ==
    [][(event'.src = "cmd" /\ CmdRaises(Head(command_queue)))
         => /\ pc_cmd' = "idle"
            /\ command_queue' = Tail(command_queue)
            /\ UNCHANGED <<net_vars, net_task, loop_vars, engine_vars, robot,
                           connected, serial_lock, status_vars>>]_vars

\* The dispatch of a set_target with motor index 9 has raised in a live
\* remote server, and the key_press behind it is the next to be taken.
C32_Witness ==
    /\ prog = "remote" /\ Live
    /\ event = Ev("cmd", "set_target", "none")
    /\ target_positions # NoTarget
    /\ pc_cmd = "idle"
    /\ command_queue = <<Cmd("key_press", "w", -1, 0)>>
    /\ clients = {"c1"}

\* C33: every command a network-read task has put on the queue is taken from
\* it and dispatched once by the consumer: the task that receives a message
\* only appends it and dispatches nothing, a dispatch takes exactly the
\* command at the head off the queue and begins only when the consumer has
\* finished the dispatch before it, and nothing else changes the queue.
C33_DispatchedExactlyOnce ==
    [][/\ Len(command_queue') > Len(command_queue)
             => /\ event'.src # "cmd"
                /\ pc_cmd' = pc_cmd
                /\ EngineUnchanged
                /\ command_queue' = Append(command_queue, command_queue'[Len(command_queue')])
       /\ event'.src = "cmd"
             => /\ pc_cmd = "idle"
                /\ command_queue # <<>>
                /\ Len(command_queue') = Len(command_queue) - 1
                /\ \A i \in 1 .. Len(command_queue') : command_queue'[i] = command_queue[i + 1]
       /\ command_queue' # command_queue
             => (event'.src = "cmd" \/ Len(command_queue') = Len(command_queue) + 1)]_vars

\* The one key_press received has been dispatched: it has moved the target
\* by one delta and is no longer on the queue.
C33_Witness ==
    /\ Live /\ nInputs = 1
    /\ event = Ev("cmd", "key_press", "w")
    /\ command_queue = <<>>
    /\ pc_cmd = "idle"
    /\ \E p \in PosSamples :
          target_positions = [p EXCEPT ![key_mapping["w"][1] + 1] = @ + key_mapping["w"][2]]

\* C34: once the target vector of the arm exists it has one element per
\* motor, in every reachable state: presses, releases, set_target commands,
\* emergency stops and ticks never change its length.
C34_TargetLength ==
    target_positions # NoTarget => Len(target_positions) = NumMotors

\* A remote server whose target has been changed by a set_target command
\* while a client had already sent two messages.
C34_Witness ==
    /\ prog = "remote" /\ Live /\ nInputs = 2
    /\ event = Ev("cmd", "set_target", "none")
    /\ target_positions # NoTarget
    /\ target_positions[3] = 250
    /\ Len(target_positions) = NumMotors

\* C35: when a server whose robot is connected, whose target exists and in
\* which no stop is active processes a set_target command with a motor index
\* of the arm, the element of the target at that index becomes the
\* position of the command; the other elements, the pressed keys and the
\* speed profile are unchanged.  This holds for both servers.
C35_SetTargetApplied ==
    [][(/\ Live /\ ~emergency_stop_active /\ ~srv_emergency_stop
        /\ target_positions # NoTarget
        /\ event'.src = "cmd" /\ event'.op = "set_target"
        /\ Head(command_queue).motor_idx \in Motors)
         => /\ target_positions' =
                  [target_positions EXCEPT ![Head(command_queue).motor_idx + 1] =
                                               Head(command_queue).position]
            /\ UNCHANGED <<pressed_keys, speed_vars>>]_vars

\* C36: every welcome and status_update message shows the state of the
\* instant at which it is sent: its emergency_stop field is the stop flag of
\* the controller and its target positions, where it carries them, are the
\* target of the controller.
C36_SnapshotIsCurrent ==
    sent.msg.type \in {"welcome", "status_update"}
        => LET d == IF prog = "ws" THEN sent.msg
                    ELSE IF sent.msg.type = "welcome" THEN sent.msg.status
                    ELSE sent.msg.data
           IN /\ d.emergency_stop = emergency_stop_active
              /\ "target_positions" \in DOMAIN d
                    => d.target_positions = target_positions

\* ------------------------------------------- the window under a stop
\* The local program with its window dispatching events while the emergency
\* stop is active: the pressed keys and the timers were cleared when it was
\* activated and the target was latched on a position read; Ctrl may have
\* been held at that moment.
InitStopped ==
    /\ prog = "local"
    /\ max_relative_target = None
    /\ ctrl_pressed \in BOOLEAN
    /\ pressed_keys = {}
    /\ emergency_stop_active = TRUE
    /\ speed_scale \in {SPEED_SCALE_MIN, DEFAULT_SPEED_SCALE, SPEED_SCALE_MAX}
    /\ hold_speed = DEFAULT_HOLD_SPEED
    /\ key_mapping = update_key_mapping(speed_scale)
    /\ target_positions \in PosSamples
    /\ key_timers = {}
    /\ tk_after = {}
    /\ is_connected = TRUE
    /\ bus = NoBus
    /\ pc_ctl = "gui"
    /\ cur = NoVec
    /\ goal = NoVec
    /\ tick_stop = FALSE
    /\ robot = TRUE
    /\ connected = FALSE
    /\ serial_lock = "free"
    /\ command_queue = <<>>
    /\ srv_emergency_stop = FALSE
    /\ status_positions = NoVec
    /\ status_targets = NoVec
    /\ pc_cmd = "idle"
    /\ pc_init = "none"
    /\ original_pos = NoVec
    /\ pc_net = "idle"
    /\ nInputs = 0
    /\ clients = {}
    /\ handlers = {}
    /\ status_tasks = {}
    /\ net_owner = "none"
    /\ sent = NoMsg
    /\ event = NoEvent
    /\ RecordIdle
    /\ ClientIdle

NextResume ==
    \/ \E key \in Keys : GuiKeyPress(key)
    \/ \E key \in Keys : GuiKeyRelease(key)
    \/ GuiEscapePress
    \/ GuiEscapeRead

SpecResume == InitStopped /\ [][NextResume]_vars

\* C37: an <Escape> that clears the emergency stop changes the flag only:
\* the target, the pressed keys and the speed profile are as before; and
\* with the stop cleared the first press of a mapped key moves the target
\* by the key's delta again.
C37_ResumeKeepsState ==
    [][/\ (event'.src = "gui" /\ event'.op = "escape" /\ emergency_stop_active)
             => /\ ~emergency_stop_active'
                /\ UNCHANGED <<target_positions, pressed_keys, speed_vars>>
       /\ (/\ event'.src = "gui" /\ event'.op = "key_press"
           /\ ~emergency_stop_active
           /\ event'.key \in DOMAIN key_mapping
           /\ event'.key \notin pressed_keys)
             => /\ target_positions' = update_target_position(event'.key)
                /\ target_positions' # target_positions]_vars

\* The stop was cleared and then "w" pressed: the target has left the
\* position it was latched on.
C37_Witness ==
    /\ prog = "local" /\ nInputs = 2
    /\ event = Ev("gui", "key_press", "w")
    /\ ~emergency_stop_active
    /\ pressed_keys = {"w"}
    /\ target_positions \notin PosSamples

\* C38: ctrl_pressed is true exactly when a Control key is among the pressed
\* keys, in every reachable state, also after an emergency stop; and the
\* release of a Control key always leaves the flag false.
C38_CtrlFlagTracksKey ==
    /\ [](ctrl_pressed <=> (CtrlKeys \cap pressed_keys # {}))
    /\ [][(/\ event'.src = "gui" /\ event'.op = "key_release"
           /\ event'.key \in CtrlKeys)
             => ~ctrl_pressed']_vars

\* ------------------------------------------------- the client programs
\* The remote client (remote_control_client.py) and the websocket client
\* (SO100WebSocketClient): a window whose key handlers make key commands,
\* and a connection to a server that is opened and closed.
MaxClientEvents == 5
MaxConnections == 2

\* The keys of ClientKeys in key_mapping of the remote client.
ClientMapped == {"w"}

\* A key command made now: it remembers the connection in use.
KeyCommand(t, k) == [type |-> t, key |-> k, queued_on |-> connection]

\* websocket.send(message): the command leaves on the connection in use.
Transmit(c) ==
    /\ transmitted' = [type |-> c.type, key |-> c.key, queued_on |-> c.queued_on,
                       sent_on |-> connection]
    /\ last_command' = [last_command EXCEPT ![c.key] = c.type]

NoSend ==
    /\ transmitted' = NoWire
    /\ UNCHANGED <<client_command_queue, last_command>>

\* send_command of the remote client puts the command on command_queue when
\* connected; _send_command of the websocket client sends it when connected.
client_send_command(c) ==
    IF ~client_connected THEN NoSend
    ELSE IF prog = "remote_client"
    THEN /\ client_command_queue' = Append(client_command_queue, c)
         /\ transmitted' = NoWire
         /\ UNCHANGED last_command
    ELSE /\ Transmit(c)
         /\ UNCHANGED client_command_queue

\* on_key_press of the remote client: a key of the table that is not in
\* pressed_keys is added and sent.  _on_key_press of the websocket client:
\* nothing unless connected and the robot connected; then a key not in
\* pressed_keys is added and sent.
client_on_key_press(key) ==
    IF prog = "remote_client"
    THEN IF key \notin client_pressed_keys /\ key \in ClientMapped
         THEN /\ client_pressed_keys' = client_pressed_keys \cup {key}
              /\ client_send_command(KeyCommand("key_press", key))
         ELSE UNCHANGED client_pressed_keys /\ NoSend
    ELSE IF client_connected /\ client_robot_connected /\ key \notin client_pressed_keys
         THEN /\ client_pressed_keys' = client_pressed_keys \cup {key}
              /\ client_send_command(KeyCommand("key_press", key))
         ELSE UNCHANGED client_pressed_keys /\ NoSend

\* on_key_release / _on_key_release: a key in pressed_keys is removed and
\* its release sent; the websocket client does nothing unless connected and
\* the robot connected.
client_on_key_release(key) ==
    IF /\ key \in client_pressed_keys
       /\ prog = "ws_client" => (client_connected /\ client_robot_connected)
    THEN /\ client_pressed_keys' = client_pressed_keys \ {key}
         /\ client_send_command(KeyCommand("key_release", key))
    ELSE UNCHANGED client_pressed_keys /\ NoSend

\* What the client programs leave alone.
server_side == <<engine_vars, is_connected, bus, config_vars, record_vars, loop_vars,
                 robot, connected, serial_lock, command_queue, status_vars, pc_cmd,
                 init_vars, net_task, net_vars, sent, event>>

ClientEvent ==
    /\ prog \in {"ws_client", "remote_client"}
    /\ nInputs < MaxClientEvents
    /\ nInputs' = nInputs + 1
    /\ UNCHANGED server_side

\* A key goes down on the keyboard and the window gets <KeyPress>.
KeyDown(key) ==
    /\ ClientEvent
    /\ key \notin held_keys
    /\ Len(client_command_queue) < MaxQueue
    /\ held_keys' = held_keys \cup {key}
    /\ client_on_key_press(key)
    /\ UNCHANGED <<client_connected, client_robot_connected, connection>>

\* A held key goes up and the window gets <KeyRelease>.
KeyUp(key) ==
    /\ ClientEvent
    /\ key \in held_keys
    /\ Len(client_command_queue) < MaxQueue
    /\ held_keys' = held_keys \ {key}
    /\ client_on_key_release(key)
    /\ UNCHANGED <<client_connected, client_robot_connected, connection>>

\* _handle_connection / _connect: a new connection is open; self.websocket
\* is the new connection and self.connected is set.
ClientConnects ==
    /\ ClientEvent
    /\ ~client_connected
    /\ connection < MaxConnections
    /\ connection' = connection + 1
    /\ client_connected' = TRUE
    /\ transmitted' = NoWire
    /\ UNCHANGED <<client_robot_connected, client_pressed_keys, held_keys,
                   client_command_queue, last_command>>

\* disconnect / _disconnect, or the connection ends: self.connected is
\* cleared; pressed_keys and command_queue stay as they are.
ClientDisconnects ==
    /\ ClientEvent
    /\ client_connected
    /\ client_connected' = FALSE
    /\ transmitted' = NoWire
    /\ UNCHANGED <<client_robot_connected, client_pressed_keys, held_keys,
                   client_command_queue, connection, last_command>>

\* _send_commands_loop of the remote client: while connected, the command
\* at the head of command_queue is taken and sent.
SendCommandsLoop ==
    /\ prog = "remote_client"
    /\ client_connected
    /\ client_command_queue # <<>>
    /\ Transmit(Head(client_command_queue))
    /\ client_command_queue' = Tail(client_command_queue)
    /\ UNCHANGED <<server_side, nInputs, client_connected, client_robot_connected,
                   client_pressed_keys, held_keys, connection>>

\* _handle_message of the websocket client: a welcome or status_update sets
\* robot_connected.
ClientHandleMessage(b) ==
    /\ prog = "ws_client"
    /\ client_connected
    /\ client_robot_connected' = b
    /\ transmitted' = NoWire
    /\ UNCHANGED <<server_side, nInputs, client_connected, client_pressed_keys,
                   held_keys, client_command_queue, connection, last_command>>

InitClient ==
    /\ prog \in {"ws_client", "remote_client"}
    /\ max_relative_target = None
    /\ pressed_keys = {}
    /\ ctrl_pressed = FALSE
    /\ emergency_stop_active = FALSE
    /\ speed_scale = DEFAULT_SPEED_SCALE
    /\ hold_speed = DEFAULT_HOLD_SPEED
    /\ key_mapping = update_key_mapping(DEFAULT_SPEED_SCALE)
    /\ target_positions = NoTarget
    /\ key_timers = {}
    /\ tk_after = {}
    /\ is_connected = FALSE
    /\ bus = NoBus
    /\ pc_ctl = "idle"
    /\ cur = NoVec
    /\ goal = NoVec
    /\ tick_stop = FALSE
    /\ robot = FALSE
    /\ connected = FALSE
    /\ serial_lock = "free"
    /\ command_queue = <<>>
    /\ srv_emergency_stop = FALSE
    /\ status_positions = NoVec
    /\ status_targets = NoVec
    /\ pc_cmd = "idle"
    /\ pc_init = "none"
    /\ original_pos = NoVec
    /\ pc_net = "idle"
    /\ nInputs = 0
    /\ clients = {}
    /\ handlers = {}
    /\ status_tasks = {}
    /\ net_owner = "none"
    /\ sent = NoMsg
    /\ event = NoEvent
    /\ RecordIdle
    /\ ClientIdle

NextClient ==
    \/ \E key \in ClientKeys : KeyDown(key)
    \/ \E key \in ClientKeys : KeyUp(key)
    \/ ClientConnects
    \/ ClientDisconnects
    \/ SendCommandsLoop
    \/ \E b \in BOOLEAN : ClientHandleMessage(b)

SpecClient == InitClient /\ [][NextClient]_vars

\* C39: in both clients pressed_keys holds only keys that are held down,
\* the key commands transmitted for one key alternate between key_press and
\* key_release and begin with key_press, the release of a key whose
\* key_press was sent sends its key_release, and the press of a key that was
\* not held, while the client is connected (and, in the websocket client,
\* the robot is), sends key_press.
C39_ClientKeysConsistent ==
    /\ [](client_pressed_keys \subseteq held_keys)
    /\ [][LET \* the step queues or transmits a command of type t for `key`
              Sends(t, key) ==
                 \/ transmitted' = [type |-> t, key |-> key,
                                    queued_on |-> connection, sent_on |-> connection]
                 \/ /\ Len(client_command_queue') = Len(client_command_queue) + 1
                    /\ client_command_queue'[Len(client_command_queue')] =
                          [type |-> t, key |-> key, queued_on |-> connection]
          IN /\ transmitted'.type = "key_press"
                   => last_command[transmitted'.key] # "key_press"
             /\ transmitted'.type = "key_release"
                   => last_command[transmitted'.key] = "key_press"
             /\ \A key \in ClientKeys :
                   /\ (/\ key \in held_keys /\ key \notin held_keys'
                       /\ last_command[key] = "key_press")
                         => Sends("key_release", key)
                   /\ (/\ key \notin held_keys /\ key \in held_keys'
                       /\ client_connected
                       /\ prog = "ws_client" => client_robot_connected
                       /\ prog = "remote_client" => key \in ClientMapped)
                         => Sends("key_press", key)]_vars

\* C40: the remote client transmits a command only over the connection that
\* was open when the command was queued.
C40_SentOnItsConnection ==
    (prog = "remote_client" /\ transmitted # NoWire)
        => transmitted.sent_on = transmitted.queued_on

====
